---- MODULE Spec2Model ----
(***************************************************************************)
(* A model of buggu: the file-to-page pipeline (pdfProcessor.js), the      *)
(* session lifecycle and extraction flow (chromeAI.js) and the JSON        *)
(* recovery helpers (jsonUtils.js).                                        *)
(*                                                                         *)
(* Text is a sequence of one-character strings.  The backtick cannot be    *)
(* written inside a TLA+ string, so it is the token BT.                    *)
(***************************************************************************)
EXTENDS Integers, Sequences, FiniteSets, TLC

\* ------------------------------------------------------------------ text

BT == "BACKTICK"
DQ == "\""
BS == "\\"
NL == "\n"
SP == " "

Chars(s) == [i \in 1..Len(s) |-> SubSeq(s, i, i)]

UpperLetters == Chars("ABCDEFGHIJKLMNOPQRSTUVWXYZ")
LowerLetters == Chars("abcdefghijklmnopqrstuvwxyz")

\* String.prototype.toLowerCase on one character (the regexps' i flag).
Lower(c) ==
    IF \E k \in 1..26 : UpperLetters[k] = c
    THEN LowerLetters[CHOOSE k \in 1..26 : UpperLetters[k] = c]
    ELSE c

\* The characters the regexp class \s and String.prototype.trim strip.
Whitespace == {SP, NL}

RECURSIVE SkipWS(_, _)
\* The first index >= i of t that holds no whitespace (Len(t) + 1 if none).
SkipWS(t, i) ==
    IF i <= Len(t) /\ t[i] \in Whitespace THEN SkipWS(t, i + 1) ELSE i

\* The pattern pat (lower case) matches t at index i, ignoring case.
MatchAt(t, i, pat) ==
    /\ i + Len(pat) - 1 <= Len(t)
    /\ \A k \in 1..Len(pat) : Lower(t[i + k - 1]) = pat[k]

\* The text pat stands in t at index i, character for character.
ExactAt(t, i, pat) ==
    /\ i + Len(pat) - 1 <= Len(t)
    /\ \A k \in 1..Len(pat) : t[i + k - 1] = pat[k]

RECURSIVE RemoveAll(_, _, _)
\* t.replace(/<pat>\s*/g, '') from index i on: leftmost matches, greedy \s*.
RemoveAll(t, i, pat) ==
    IF i > Len(t) THEN <<>>
    ELSE IF MatchAt(t, i, pat) THEN RemoveAll(t, SkipWS(t, i + Len(pat)), pat)
    ELSE <<t[i]>> \o RemoveAll(t, i + 1, pat)

RECURSIVE LastNonWS(_, _)
LastNonWS(t, i) ==
    IF i >= 1 /\ t[i] \in Whitespace THEN LastNonWS(t, i - 1) ELSE i

\* String.prototype.trim
Trim(t) ==
    LET a == SkipWS(t, 1)
        b == LastNonWS(t, Len(t))
    IN  IF a > b THEN <<>> ELSE SubSeq(t, a, b)

\* String.prototype.indexOf / lastIndexOf for one character, 0-based, -1 if absent.
IndexOf(t, c) ==
    IF \E k \in 1..Len(t) : t[k] = c
    THEN (CHOOSE k \in 1..Len(t) : t[k] = c /\ \A j \in 1..(k - 1) : t[j] # c) - 1
    ELSE -1

LastIndexOf(t, c) ==
    IF \E k \in 1..Len(t) : t[k] = c
    THEN (CHOOSE k \in 1..Len(t) : t[k] = c /\ \A j \in (k + 1)..Len(t) : t[j] # c) - 1
    ELSE -1

Min(a, b) == IF a < b THEN a ELSE b
Max(a, b) == IF a > b THEN a ELSE b

\* String.prototype.substring(from, to) with 0-based from and exclusive to.
Substring(t, from, to) == SubSeq(t, from + 1, to)

StartsWith(t, c) == Len(t) >= 1 /\ t[1] = c

\* ------------------------------------------------------------ JSON values
\* A JSON value is <<tag, payload>>: a string carries its characters, a number
\* its digits, an array its elements, an object its <<key, value>> members in
\* insertion order.

JStr(cs) == <<"str", cs>>
JNum(ds) == <<"num", ds>>
JNull == <<"null", <<>>>>
JTrue == <<"true", <<>>>>
JFalse == <<"false", <<>>>>
JArr(vs) == <<"arr", vs>>
JObj(ms) == <<"obj", ms>>

Digits == {"0", "1", "2", "3", "4", "5", "6", "7", "8", "9"}

ParseFail == [ok |-> FALSE, val |-> <<>>, pos |-> 0]
ParseOk(v, p) == [ok |-> TRUE, val |-> v, pos |-> p]

\* Defining a property of a JS object: an existing key keeps its place and
\* takes the new value, a new key is appended.
PutMember(ms, key, v) ==
    IF \E k \in 1..Len(ms) : ms[k][1] = key
    THEN [k \in 1..Len(ms) |-> IF ms[k][1] = key THEN <<key, v>> ELSE ms[k]]
    ELSE Append(ms, <<key, v>>)

RECURSIVE ParseString(_, _, _)
\* The characters of a JSON string, from the index after its opening quote.
ParseString(t, i, acc) ==
    IF i > Len(t) THEN ParseFail
    ELSE IF t[i] = DQ THEN ParseOk(acc, i + 1)
    ELSE IF t[i] = NL THEN ParseFail
    ELSE IF t[i] = BS
         THEN IF i + 1 > Len(t) THEN ParseFail
              ELSE IF t[i + 1] \in {DQ, BS, "/"}
                   THEN ParseString(t, i + 2, Append(acc, t[i + 1]))
              ELSE IF t[i + 1] = "n" THEN ParseString(t, i + 2, Append(acc, NL))
              ELSE ParseFail
    ELSE ParseString(t, i + 1, Append(acc, t[i]))

RECURSIVE ParseDigits(_, _)
\* The index after the run of digits that starts at i.
ParseDigits(t, i) ==
    IF i <= Len(t) /\ t[i] \in Digits THEN ParseDigits(t, i + 1) ELSE i

RECURSIVE ParseValue(_, _)
RECURSIVE ParseElements(_, _, _)
RECURSIVE ParseMembers(_, _, _)

\* The elements of an array, from the index after '[' or after a ','.
ParseElements(t, i, acc) ==
    LET r == ParseValue(t, i)
        j == SkipWS(t, r.pos)
    IN  IF ~r.ok \/ j > Len(t) THEN ParseFail
        ELSE IF t[j] = "," THEN ParseElements(t, j + 1, Append(acc, r.val))
        ELSE IF t[j] = "]" THEN ParseOk(JArr(Append(acc, r.val)), j + 1)
        ELSE ParseFail

\* The members of an object, from the index after '{' or after a ','.
ParseMembers(t, i, acc) ==
    LET j == SkipWS(t, i)
    IN  IF j > Len(t) \/ t[j] # DQ THEN ParseFail
        ELSE LET k == ParseString(t, j + 1, <<>>)
                 c == SkipWS(t, k.pos)
             IN  IF ~k.ok \/ c > Len(t) \/ t[c] # ":" THEN ParseFail
                 ELSE LET r == ParseValue(t, c + 1)
                          e == SkipWS(t, r.pos)
                      IN  IF ~r.ok \/ e > Len(t) THEN ParseFail
                          ELSE IF t[e] = ","
                               THEN ParseMembers(t, e + 1, PutMember(acc, k.val, r.val))
                          ELSE IF t[e] = "}"
                               THEN ParseOk(JObj(PutMember(acc, k.val, r.val)), e + 1)
                          ELSE ParseFail

\* One JSON value starting at or after index i (leading whitespace skipped).
ParseValue(t, i) ==
    LET j == SkipWS(t, i)
    IN  IF j > Len(t) THEN ParseFail
        ELSE IF t[j] = "{"
             THEN LET e == SkipWS(t, j + 1)
                  IN  IF e <= Len(t) /\ t[e] = "}" THEN ParseOk(JObj(<<>>), e + 1)
                      ELSE ParseMembers(t, j + 1, <<>>)
        ELSE IF t[j] = "["
             THEN LET e == SkipWS(t, j + 1)
                  IN  IF e <= Len(t) /\ t[e] = "]" THEN ParseOk(JArr(<<>>), e + 1)
                      ELSE ParseElements(t, j + 1, <<>>)
        ELSE IF t[j] = DQ
             THEN LET s == ParseString(t, j + 1, <<>>)
                  IN  IF s.ok THEN ParseOk(JStr(s.val), s.pos) ELSE ParseFail
        ELSE IF t[j] \in Digits
             THEN LET e == ParseDigits(t, j)
                  IN  IF t[j] = "0" /\ e > j + 1 THEN ParseFail
                      ELSE ParseOk(JNum(SubSeq(t, j, e - 1)), e)
        ELSE IF ExactAt(t, j, Chars("null")) THEN ParseOk(JNull, j + 4)
        ELSE IF ExactAt(t, j, Chars("true")) THEN ParseOk(JTrue, j + 4)
        ELSE IF ExactAt(t, j, Chars("false")) THEN ParseOk(JFalse, j + 5)
        ELSE ParseFail

\* JSON.parse: the value of the whole text, or a SyntaxError (ok = FALSE).
JSONparse(t) ==
    LET r == ParseValue(t, 1)
    IN  IF r.ok /\ SkipWS(t, r.pos) > Len(t)
        THEN [ok |-> TRUE, val |-> r.val]
        ELSE [ok |-> FALSE, val |-> <<>>]

RECURSIVE EscapeString(_)
\* The characters of a string as JSON.stringify writes them between quotes.
EscapeString(cs) ==
    IF cs = <<>> THEN <<>>
    ELSE (IF Head(cs) \in {DQ, BS} THEN <<BS, Head(cs)>>
          ELSE IF Head(cs) = NL THEN <<BS, "n">>
          ELSE <<Head(cs)>>) \o EscapeString(Tail(cs))

RECURSIVE JSONstringify(_)
RECURSIVE StringifyElements(_)
RECURSIVE StringifyMembers(_)

StringifyElements(vs) ==
    IF vs = <<>> THEN <<>>
    ELSE JSONstringify(Head(vs))
         \o (IF Len(vs) > 1 THEN <<",">> ELSE <<>>)
         \o StringifyElements(Tail(vs))

StringifyMembers(ms) ==
    IF ms = <<>> THEN <<>>
    ELSE <<DQ>> \o EscapeString(Head(ms)[1]) \o <<DQ, ":">>
         \o JSONstringify(Head(ms)[2])
         \o (IF Len(ms) > 1 THEN <<",">> ELSE <<>>)
         \o StringifyMembers(Tail(ms))

\* JSON.stringify(v) with no indentation.
JSONstringify(v) ==
    CASE v[1] = "str" -> <<DQ>> \o EscapeString(v[2]) \o <<DQ>>
      [] v[1] = "num" -> v[2]
      [] v[1] = "null" -> Chars("null")
      [] v[1] = "true" -> Chars("true")
      [] v[1] = "false" -> Chars("false")
      [] v[1] = "arr" -> <<"[">> \o StringifyElements(v[2]) \o <<"]">>
      [] v[1] = "obj" -> <<"{">> \o StringifyMembers(v[2]) \o <<"}">>

RECURSIVE Pretty(_, _)
RECURSIVE PrettyElements(_, _)
RECURSIVE PrettyMembers(_, _)

PrettyElements(vs, ind) ==
    IF vs = <<>> THEN <<>>
    ELSE ind \o Pretty(Head(vs), ind)
         \o (IF Len(vs) > 1 THEN <<",", NL>> ELSE <<>>)
         \o PrettyElements(Tail(vs), ind)

PrettyMembers(ms, ind) ==
    IF ms = <<>> THEN <<>>
    ELSE ind \o <<DQ>> \o EscapeString(Head(ms)[1]) \o <<DQ, ":", SP>>
         \o Pretty(Head(ms)[2], ind)
         \o (IF Len(ms) > 1 THEN <<",", NL>> ELSE <<>>)
         \o PrettyMembers(Tail(ms), ind)

\* The text of v inside JSON.stringify(_, null, 2), at indentation ind.
Pretty(v, ind) ==
    IF v[1] = "arr" /\ v[2] # <<>>
    THEN <<"[", NL>> \o PrettyElements(v[2], ind \o <<SP, SP>>) \o <<NL>> \o ind \o <<"]">>
    ELSE IF v[1] = "obj" /\ v[2] # <<>>
    THEN <<"{", NL>> \o PrettyMembers(v[2], ind \o <<SP, SP>>) \o <<NL>> \o ind \o <<"}">>
    ELSE JSONstringify(v)

\* JSON.stringify(v, null, 2)
JSONstringifyPretty(v) == Pretty(v, <<>>)

\* ------------------------------------------------------ jsonUtils.js

ErrEmpty == "Empty response from AI model"
ErrNoJSON == "AI response does not contain valid JSON"
ErrRepair == "Unable to repair JSON automatically"

FenceJson == <<BT, BT, BT, "j", "s", "o", "n">>
Fence == <<BT, BT, BT>>

\* cleaned.replace(/```json\s*/gi, '') then cleaned.replace(/```\s*/g, '')
RemoveFences(t) == RemoveAll(RemoveAll(t, 1, FenceJson), 1, Fence)

Prefixes ==
    { Chars("here's the json:"), Chars("here is the json:"),
      Chars("json output:"), Chars("output:") }

\* cleaned.replace(/^(Here's the JSON|Here is the JSON|JSON output|Output):\s*/gi, '')
RemovePrefix(t) ==
    IF \E p \in Prefixes : MatchAt(t, 1, p)
    THEN LET p == CHOOSE q \in Prefixes : MatchAt(t, 1, q)
         IN  SubSeq(t, SkipWS(t, Len(p) + 1), Len(t))
    ELSE t

\* The start index sanitizeJSON picks: the first '{' or '[', -1 if neither.
StartIndex(cleaned) ==
    LET firstBrace == IndexOf(cleaned, "{")
        firstBracket == IndexOf(cleaned, "[")
    IN  IF firstBrace # -1 /\ firstBracket # -1 THEN Min(firstBrace, firstBracket)
        ELSE IF firstBrace # -1 THEN firstBrace
        ELSE IF firstBracket # -1 THEN firstBracket
        ELSE -1

\* The end index sanitizeJSON picks: the last '}' or ']'.
EndIndex(cleaned) == Max(LastIndexOf(cleaned, "}"), LastIndexOf(cleaned, "]"))

\* ExtractBody with the end index taken as exclusive.
ExtractBody_EndExclusive(cleaned) ==
    LET startIndex == StartIndex(cleaned)
        endIndex == EndIndex(cleaned)
    IN  IF startIndex # -1 /\ endIndex > startIndex
        THEN Substring(cleaned, startIndex, endIndex)
        ELSE cleaned

\* The substring step of sanitizeJSON.
ExtractBody(cleaned) ==
    LET startIndex == StartIndex(cleaned)
        endIndex == EndIndex(cleaned)
    IN  IF startIndex # -1 /\ endIndex > startIndex
        THEN Substring(cleaned, startIndex, endIndex + 1)
        ELSE cleaned

\* LooksLikeJSON with the final validation left out.
LooksLikeJSON_Unchecked(cleaned) == TRUE

\* The final validation of sanitizeJSON.
LooksLikeJSON(cleaned) == StartsWith(cleaned, "{") \/ StartsWith(cleaned, "[")

\* sanitizeJSON(rawText): the cleaned text, or the Error it throws.
sanitizeJSON(rawText) ==
    IF rawText = <<>> THEN [ok |-> FALSE, err |-> ErrEmpty, text |-> <<>>]
    ELSE LET cleaned == ExtractBody(Trim(RemovePrefix(RemoveFences(rawText))))
         IN  IF ~LooksLikeJSON(cleaned)
             THEN [ok |-> FALSE, err |-> ErrNoJSON, text |-> <<>>]
             ELSE [ok |-> TRUE, err |-> "", text |-> cleaned]

RECURSIVE RemoveTrailingCommas(_, _)
\* fixed.replace(/,(\s*[}\]])/g, '$1') from index i on.
RemoveTrailingCommas(t, i) ==
    IF i > Len(t) THEN <<>>
    ELSE LET j == SkipWS(t, i + 1)
         IN  IF t[i] = "," /\ j <= Len(t) /\ t[j] \in {"}", "]"}
             THEN SubSeq(t, i + 1, j) \o RemoveTrailingCommas(t, j + 1)
             ELSE <<t[i]>> \o RemoveTrailingCommas(t, i + 1)

\* repairJSON(jsonString): the parsed value, or the Error it throws.
repairJSON(jsonString) ==
    LET first == JSONparse(jsonString)
        fixed == RemoveTrailingCommas(jsonString, 1)
        second == JSONparse(fixed)
    IN  IF first.ok THEN [ok |-> TRUE, err |-> "", val |-> first.val]
        ELSE IF second.ok THEN [ok |-> TRUE, err |-> "", val |-> second.val]
        ELSE [ok |-> FALSE, err |-> ErrRepair, val |-> <<>>]

\* ------------------------------------------------------------- state

VARIABLES
    \* chromeAI.js: module state and the environment it talks to
    lmPresent,      \* getLanguageModel() finds the Prompt API
    session,        \* the module variable: 0 is null, h >= 1 a handle
    modelParams,    \* the module variable: TRUE once LM.params() was stored
    createCalls,    \* how many times LM.create was invoked
    destroys,       \* destroys[h]: how many times handle h was destroyed
    \* chromeAI.js: one record per extractJSONFromImages call
    pc,             \* where the call is suspended
    held,           \* the call's local s
    imageBlobs,     \* the call's argument
    rawResult,      \* the first response of the model
    trail,          \* the prompts and recovery stages the call went through
    value,          \* what the call returned
    err,            \* what the call threw
    request,        \* the messages passed to s.prompt for the extraction
    repairPrompt,   \* the text of the repair prompt
    repairedResult, \* the response to the repair prompt
    \* pdfProcessor.js: one processFiles call
    files, fpc, fileIdx, results, numPages, pageNum, pageStep, images,
    rendered, fout, ferr,
    fetched,        \* the pages pdf.getPage resolved with, in order
    cleaned,        \* the pages whose cleanup() was invoked
    \* jsonUtils.js: one document through stage 1
    jdoc, jphase, jwrap, jtext, jclean, jout,
    \* chromeAI.js: one checkAvailability call
    apc,            \* where the call is: "idle", "racing", "returned"
    aprobe,         \* the promise of LM.availability()
    atimer,         \* the setTimeout of the timeout promise
    aclock,         \* ticks since the call
    aresult,        \* what the call returned
    \* App.jsx: the availability check of the component
    effectActive,        \* the mount effect has run and its cleanup has not
    isMountedRef,        \* isMountedRef.current
    checkInProgressRef,  \* checkInProgressRef.current
    aiStatus,            \* the aiStatus state
    cpc,                 \* where each checkAIWithRetry invocation is
    attempts,            \* its attempts counter
    maxAttempts,         \* its maxAttempts argument
    \* App.jsx: the conversion modal
    view,                \* "home", "upload" (UploadStep), "schema" (SchemaStep), "loading", "results"
    instance,            \* how many times UploadStep has been mounted
    upc,                 \* where each handleFileUpload invocation is
    uinst,               \* the UploadStep instance it was started in
    uiFiles,             \* the files state: the upload whose files it holds
    processedImages,     \* the processedImages state
    previewUrls,         \* the previewUrls state of the mounted UploadStep
    schemaUrls,          \* the urls of the mounted SchemaStep's effect
    urlCount,            \* how many object URLs were created
    revoked              \* the object URLs revoked

svars == <<lmPresent, session, modelParams, createCalls, destroys, pc, held,
           imageBlobs, rawResult, trail, value, err, request, repairPrompt,
           repairedResult>>
fvars == <<files, fpc, fileIdx, results, numPages, pageNum, pageStep, images,
           rendered, fout, ferr, fetched, cleaned>>
jvars == <<jdoc, jphase, jwrap, jtext, jclean, jout>>
avars == <<apc, aprobe, atimer, aclock, aresult>>
cvars == <<effectActive, isMountedRef, checkInProgressRef, aiStatus, cpc,
           attempts, maxAttempts>>
wvars == <<view, instance, upc, uinst, uiFiles, processedImages, previewUrls,
           schemaUrls, urlCount, revoked>>
uvars == <<cvars, wvars>>
vars == <<svars, fvars, jvars, avars, uvars>>

\* ------------------------------------------------------------ bounds

NumCalls == 2
MaxFiles == 4
MaxPdfPages == 4
MaxStrLen == 3
MaxProseLen == 2
TicksPerSecond == 2
NumChecks == 3
NumUploads == 2
MaxUploadPages == 2
MaxUrls == 6
MaxMounts == 3

Calls == 1..NumCalls

\* ------------------------------------------------ pdfProcessor.js

MAX_PAGES == 3

\* The page maximum the README states ("up to 10 pages").
README_MAX_PAGES == 10

ImageType == "image/png"
GifType == "image/gif"
PdfType == "application/pdf"
OtherType == "text/plain"

\* The files a user can upload: an image of either type, a file of an
\* unsupported type, or a PDF with 1..MaxPdfPages pages.
FileKinds ==
    {[type |-> ImageType, pages |-> 0], [type |-> GifType, pages |-> 0],
     [type |-> OtherType, pages |-> 0]}
    \cup {[type |-> PdfType, pages |-> n] : n \in 1..MaxPdfPages}

FileLists == UNION {[1..n -> FileKinds] : n \in 0..MaxFiles}

\* IsImage with one image type only.
IsImage_PngOnly(f) == f.type = ImageType

\* file.type.startsWith('image/')
IsImage(f) == ExactAt(Chars(f.type), 1, Chars("image/"))

\* The artifact pushed for an image file: the file itself is the blob.
ImageArtifact(i) == [type |-> "image", file |-> i, pageNum |-> 0]

\* The artifact pushed for page k of the PDF that is file i.
PageArtifact(i, k) == [type |-> "pdf", file |-> i, pageNum |-> k]

\* results.push({blob: file, type: 'image', name: file.name})
PushImage(rs, i) == Append(rs, ImageArtifact(i))

\* PushPages with unshift in place of push.
PushPages_Unshift(rs, imgs) == imgs \o rs

\* results.push(...pdfImages)
PushPages(rs, imgs) == rs \o imgs

\* PagesToRender without the page budget.
PagesToRender_All(f) == f.pages

\* Math.min(pdf.numPages, MAX_PAGES)
PagesToRender(f) == Min(f.pages, MAX_PAGES)

\* EnforceLimit with the slice one element too long.
EnforceLimit_OneTooMany(rs) ==
    IF Len(rs) > MAX_PAGES THEN SubSeq(rs, 1, MAX_PAGES + 1) ELSE rs

\* The page-limit step that ends processFiles.
EnforceLimit(rs) == IF Len(rs) > MAX_PAGES THEN SubSeq(rs, 1, MAX_PAGES) ELSE rs

\* An error message is a sequence of parts: literal text, a page number
\* (${pageNum}) or the name of the i-th file of the upload (${file.name}).
Text(s) == [part |-> s, n |-> 0]
PageNumber(k) == [part |-> "pageNum", n |-> k]
FileName(i) == [part |-> "file.name", n |-> i]

\* error.message of an error thrown by the file, by pdf.js or by the canvas.
Cause == Text("cause")

\* PageError with the page number left out of the message.
PageError_NoNumber(k, cause) == <<Text("Failed to render page: "), cause>>

\* `Failed to render page ${pageNum}: ${error.message}`
PageError(k, cause) ==
    <<Text("Failed to render page "), PageNumber(k), Text(": "), cause>>

\* `PDF processing failed: ${error.message}`
BatchError(message) == <<Text("PDF processing failed: ")>> \o message

FIdle ==
    /\ files = <<>> /\ fpc = "idle" /\ fileIdx = 0 /\ results = <<>>
    /\ numPages = 0 /\ pageNum = 0 /\ pageStep = "none" /\ images = <<>>
    /\ rendered = <<>> /\ fout = <<>> /\ ferr = <<>>
    /\ fetched = <<>> /\ cleaned = {}

\* processFiles(files) is called: the loop is about to look at the first file.
FInit ==
    /\ files \in FileLists
    /\ fpc = "loop" /\ fileIdx = 1 /\ results = <<>>
    /\ numPages = 0 /\ pageNum = 0 /\ pageStep = "none" /\ images = <<>>
    /\ rendered = <<>> /\ fout = <<>> /\ ferr = <<>>
    /\ fetched = <<>> /\ cleaned = {}

\* An image file passes through untouched.
PF_Image ==
    /\ fpc = "loop" /\ fileIdx <= Len(files) /\ IsImage(files[fileIdx])
    /\ results' = PushImage(results, fileIdx)
    /\ fileIdx' = fileIdx + 1
    /\ UNCHANGED <<files, fpc, numPages, pageNum, pageStep, images, rendered, fout, ferr>>
    /\ UNCHANGED <<fetched, cleaned>>
    /\ UNCHANGED <<svars, jvars, avars, uvars>>

\* A file that is neither an image nor a PDF is logged and skipped.
PF_Skip ==
    /\ fpc = "loop" /\ fileIdx <= Len(files)
    /\ ~IsImage(files[fileIdx]) /\ files[fileIdx].type # PdfType
    /\ fileIdx' = fileIdx + 1
    /\ UNCHANGED <<files, fpc, results, numPages, pageNum, pageStep, images, rendered, fout, ferr>>
    /\ UNCHANGED <<fetched, cleaned>>
    /\ UNCHANGED <<svars, jvars, avars, uvars>>

\* convertPdfToImages is entered and the document loads.
PF_PdfOpen ==
    /\ fpc = "loop" /\ fileIdx <= Len(files)
    /\ ~IsImage(files[fileIdx]) /\ files[fileIdx].type = PdfType
    /\ fpc' = "pdf"
    /\ numPages' = PagesToRender(files[fileIdx])
    /\ images' = <<>>
    /\ pageNum' = 1
    /\ pageStep' = "none"
    /\ UNCHANGED <<files, fileIdx, results, rendered, fout, ferr>>
    /\ UNCHANGED <<fetched, cleaned>>
    /\ UNCHANGED <<svars, jvars, avars, uvars>>

\* Reading or loading the PDF fails: processFiles rethrows.
PF_PdfOpenFail ==
    /\ fpc = "loop" /\ fileIdx <= Len(files)
    /\ ~IsImage(files[fileIdx]) /\ files[fileIdx].type = PdfType
    /\ fpc' = "rejected"
    /\ ferr' = BatchError(<<Cause>>)
    /\ UNCHANGED <<files, fileIdx, results, numPages, pageNum, pageStep, images, rendered, fout>>
    /\ UNCHANGED <<fetched, cleaned>>
    /\ UNCHANGED <<svars, jvars, avars, uvars>>

\* await pdf.getPage(pageNum)
PDF_GetPage ==
    /\ fpc = "pdf" /\ pageNum <= numPages /\ pageStep = "none"
    /\ pageStep' = "fetched"
    /\ fetched' = Append(fetched, <<fileIdx, pageNum>>)
    /\ UNCHANGED <<files, fpc, fileIdx, results, numPages, pageNum, images, rendered, fout, ferr>>
    /\ UNCHANGED cleaned
    /\ UNCHANGED <<svars, jvars, avars, uvars>>

\* await page.render(renderContext).promise
PDF_Render ==
    /\ fpc = "pdf" /\ pageStep = "fetched"
    /\ pageStep' = "rendered"
    /\ rendered' = Append(rendered, <<fileIdx, pageNum>>)
    /\ UNCHANGED <<files, fpc, fileIdx, results, numPages, pageNum, images, fout, ferr>>
    /\ UNCHANGED <<fetched, cleaned>>
    /\ UNCHANGED <<svars, jvars, avars, uvars>>

\* PDF_Encode without the call of page.cleanup().
PDF_Encode_NoCleanup ==
    /\ fpc = "pdf" /\ pageStep = "rendered"
    /\ images' = Append(images, PageArtifact(fileIdx, pageNum))
    /\ pageStep' = "none"
    /\ pageNum' = pageNum + 1
    /\ UNCHANGED <<files, fpc, fileIdx, results, numPages, rendered, fout, ferr>>
    /\ UNCHANGED <<fetched, cleaned>>
    /\ UNCHANGED <<svars, jvars, avars, uvars>>

\* canvas.toBlob resolves; the page is pushed and page.cleanup() is called,
\* with no await between the two.
PDF_Encode ==
    /\ fpc = "pdf" /\ pageStep = "rendered"
    /\ images' = Append(images, PageArtifact(fileIdx, pageNum))
    /\ cleaned' = cleaned \cup {<<fileIdx, pageNum>>}
    /\ pageStep' = "none"
    /\ pageNum' = pageNum + 1
    /\ UNCHANGED <<files, fpc, fileIdx, results, numPages, rendered, fout, ferr>>
    /\ UNCHANGED fetched
    /\ UNCHANGED <<svars, jvars, avars, uvars>>

\* PDF_PageFail with the failure logged and the loop going on to the next file.
PDF_PageFail_SkipFile ==
    /\ fpc = "pdf" /\ pageNum <= numPages
    /\ fpc' = "loop"
    /\ fileIdx' = fileIdx + 1
    /\ ferr' = BatchError(PageError(pageNum, Cause))
    /\ UNCHANGED <<files, results, numPages, pageNum, pageStep, images, rendered, fout>>
    /\ UNCHANGED <<fetched, cleaned>>
    /\ UNCHANGED <<svars, jvars, avars, uvars>>

\* getPage, render or toBlob fails for the current page: convertPdfToImages
\* throws and processFiles rethrows.
PDF_PageFail ==
    /\ fpc = "pdf" /\ pageNum <= numPages
    /\ fpc' = "rejected"
    /\ ferr' = BatchError(PageError(pageNum, Cause))
    /\ UNCHANGED <<files, fileIdx, results, numPages, pageNum, pageStep, images, rendered, fout>>
    /\ UNCHANGED <<fetched, cleaned>>
    /\ UNCHANGED <<svars, jvars, avars, uvars>>

\* convertPdfToImages returns its images; processFiles appends them.
PF_PdfDone ==
    /\ fpc = "pdf" /\ pageNum > numPages
    /\ results' = PushPages(results, images)
    /\ fileIdx' = fileIdx + 1
    /\ fpc' = "loop"
    /\ UNCHANGED <<files, numPages, pageNum, pageStep, images, rendered, fout, ferr>>
    /\ UNCHANGED <<fetched, cleaned>>
    /\ UNCHANGED <<svars, jvars, avars, uvars>>

\* The loop is over: the page limit is enforced and the artifacts returned.
PF_Return ==
    /\ fpc = "loop" /\ fileIdx > Len(files)
    /\ fout' = EnforceLimit(results)
    /\ fpc' = "returned"
    /\ UNCHANGED <<files, fileIdx, results, numPages, pageNum, pageStep, images, rendered, ferr>>
    /\ UNCHANGED <<fetched, cleaned>>
    /\ UNCHANGED <<svars, jvars, avars, uvars>>

\* ------------------------------------------------ the upload flow

\* const MAX_FILE_SIZE = 50 * 1024 * 1024
MAX_FILE_SIZE == 50 * 1024 * 1024

ALLOWED_TYPES ==
    {"image/jpeg", "image/jpg", "image/png", "image/webp", "application/pdf"}

\* validateFile(file), for a file that is given.
validateFile(file) ==
    IF file.size > MAX_FILE_SIZE
    THEN [valid |-> FALSE, error |-> "File too large"]
    ELSE IF file.type \notin ALLOWED_TYPES
    THEN [valid |-> FALSE, error |-> "Unsupported file type"]
    ELSE [valid |-> TRUE, error |-> ""]

\* The files a user can pick: each type, at the size limit and one byte over.
UploadKinds ==
    { [type |-> t, pages |-> IF t = PdfType THEN 2 ELSE 0, size |-> z] :
        t \in {ImageType, GifType, PdfType, OtherType},
        z \in {MAX_FILE_SIZE, MAX_FILE_SIZE + 1} }

UploadLists == UNION {[1..n -> UploadKinds] : n \in 1..MaxFiles}

\* handleFileUpload: the picked files become uploadedFiles and processFiles
\* is called with them.
HandleFileUpload ==
    /\ fpc = "idle"
    /\ \E uploadedFiles \in UploadLists : files' = uploadedFiles
    /\ fpc' = "loop" /\ fileIdx' = 1
    /\ UNCHANGED <<results, numPages, pageNum, pageStep, images, rendered, fout, ferr>>
    /\ UNCHANGED <<fetched, cleaned>>
    /\ UNCHANGED <<svars, jvars, avars, uvars>>

\* ------------------------------------------- stage 1 on one document

\* The characters a string of a document is made of.
StrChars == {"a", BT, DQ, "}"}

Strings == UNION {[1..n -> StrChars] : n \in 0..MaxStrLen}

\* Recovered Documents: objects and arrays around one string s.
Docs ==
    UNION { { JArr(<<JStr(s)>>),
              JObj(<< <<Chars("a"), JStr(s)>> >>),
              JObj(<< <<s, JNum(Chars("1"))>> >>),
              JArr(<<JNum(Chars("10")), JStr(s), JNull>>),
              JObj(<< <<Chars("k"), JArr(<<JStr(s), JTrue>>)>>,
                      <<Chars("b"), JObj(<<>>)>> >>) } : s \in Strings }

\* The boilerplate prefixes as a model writes them, and none.
PrefixTexts ==
    { <<>>, Chars("Here's the JSON:"), Chars("Here is the JSON:"),
      Chars("JSON output:"), Chars("Output:") }

JIdle ==
    /\ jdoc = <<>> /\ jphase = "idle" /\ jwrap = "none" /\ jtext = <<>>
    /\ jclean = [ok |-> FALSE, err |-> "", text |-> <<>>]
    /\ jout = [ok |-> FALSE, val |-> <<>>]

JInit ==
    /\ jdoc \in Docs
    /\ jphase = "doc" /\ jwrap = "none" /\ jtext = <<>>
    /\ jclean = [ok |-> FALSE, err |-> "", text |-> <<>>]
    /\ jout = [ok |-> FALSE, val |-> <<>>]

\* The document is serialized: JSON.stringify(D) or JSON.stringify(D, null, 2).
JSerialize ==
    /\ jphase = "doc"
    /\ \E pretty \in BOOLEAN :
          jtext' = IF pretty THEN JSONstringifyPretty(jdoc) ELSE JSONstringify(jdoc)
    /\ jphase' = "text"
    /\ UNCHANGED <<jdoc, jwrap, jclean, jout>>
    /\ UNCHANGED <<svars, fvars, avars, uvars>>

\* The model wraps the text: a prefix, a json fence, the text, a closing fence.
JWrap ==
    /\ jphase = "text" /\ jwrap = "none"
    /\ \E p \in PrefixTexts, spaced \in BOOLEAN :
          LET gap == IF spaced THEN <<SP>> ELSE <<>>
              nl == IF spaced THEN <<NL>> ELSE <<>>
          IN  jtext' = p \o gap \o FenceJson \o nl \o jtext \o nl \o Fence
    /\ jwrap' = "fenced"
    /\ UNCHANGED <<jdoc, jphase, jclean, jout>>
    /\ UNCHANGED <<svars, fvars, avars, uvars>>

\* Stage 1, first half: utilsSanitizeJSON(rawResult).
JSanitize ==
    /\ jphase = "text"
    /\ jclean' = sanitizeJSON(jtext)
    /\ jphase' = "sanitized"
    /\ UNCHANGED <<jdoc, jwrap, jtext, jout>>
    /\ UNCHANGED <<svars, fvars, avars, uvars>>

\* Stage 1, second half: JSON.parse(jsonString).
JParse ==
    /\ jphase = "sanitized" /\ jclean.ok
    /\ jout' = JSONparse(jclean.text)
    /\ jphase' = "parsed"
    /\ UNCHANGED <<jdoc, jwrap, jtext, jclean>>
    /\ UNCHANGED <<svars, fvars, avars, uvars>>

\* ------------------------------- stage 1 on a document inside prose

\* The characters the model's prose around a document is made of.
ProseChars == {"a", "{", "}", "[", "]"}

ProseTexts == UNION {[1..n -> ProseChars] : n \in 0..MaxProseLen}

\* Recovered Documents: an object and an array, flat and nested.
ProseDocs ==
    { JObj(<< <<Chars("a"), JNum(Chars("1"))>> >>),
      JArr(<<JNum(Chars("1")), JStr(Chars("b"))>>),
      JObj(<< <<Chars("k"), JArr(<<JTrue>>)>> >>),
      JArr(<<JObj(<< <<Chars("a"), JNull>> >>)>>) }

\* The model writes prose, the text, and commentary after it.
JProse ==
    /\ jphase = "text" /\ jwrap = "none"
    /\ \E prose \in ProseTexts, commentary \in ProseTexts :
          jtext' = prose \o <<SP>> \o jtext \o <<SP>> \o commentary
    /\ jwrap' = "prose"
    /\ UNCHANGED <<jdoc, jphase, jclean, jout>>
    /\ UNCHANGED <<svars, fvars, avars, uvars>>

\* ------------------------------------- stages 1 and 2 on one document

\* The characters of the strings in a document the model ends with commas.
CommaChars == {"a", ",", "}", "]"}

CommaStrings == UNION {[1..n -> CommaChars] : n \in 0..MaxStrLen}

\* Recovered Documents around one string s, flat and nested.
CommaDocs ==
    UNION { { JArr(<<JStr(s)>>),
              JObj(<< <<Chars("a"), JStr(s)>> >>),
              JArr(<<JNum(Chars("1")), JArr(<<>>), JObj(<< <<s, JTrue>> >>)>>),
              JObj(<< <<Chars("k"), JArr(<<JStr(s), JNull>>)>>,
                      <<Chars("b"), JObj(<<>>)>> >>) } : s \in CommaStrings }

RECURSIVE WithTrailingCommas(_, _, _, _)
\* The JSON text t from index i on, with a comma and the text gap put before
\* the closing brace or bracket of every container that is not empty.
WithTrailingCommas(t, i, inString, gap) ==
    IF i > Len(t) THEN <<>>
    ELSE IF inString
    THEN IF t[i] = BS
         THEN <<t[i], t[i + 1]>> \o WithTrailingCommas(t, i + 2, TRUE, gap)
         ELSE <<t[i]>> \o WithTrailingCommas(t, i + 1, t[i] # DQ, gap)
    ELSE IF t[i] \in {"}", "]"} /\ t[i - 1] \notin {"{", "["}
    THEN <<",">> \o gap \o <<t[i]>> \o WithTrailingCommas(t, i + 1, FALSE, gap)
    ELSE <<t[i]>> \o WithTrailingCommas(t, i + 1, t[i] = DQ, gap)

\* The model ends every member list and element list with a comma.
JTrailingCommas ==
    /\ jphase = "text" /\ jwrap = "none"
    /\ \E gap \in {<<>>, <<SP>>} : jtext' = WithTrailingCommas(jtext, 1, FALSE, gap)
    /\ jwrap' = "commas"
    /\ UNCHANGED <<jdoc, jphase, jclean, jout>>
    /\ UNCHANGED <<svars, fvars, avars, uvars>>

\* Stage 2 after stage 1 failed: utilsSanitizeJSON(rawResult) again, then
\* repairJSON; when that fails too, the repair prompt is sent.
JRepair ==
    /\ \/ jphase = "sanitized" /\ ~jclean.ok
       \/ jphase = "parsed" /\ ~jout.ok
    /\ LET jsonString == sanitizeJSON(jtext)
           repaired == IF jsonString.ok THEN repairJSON(jsonString.text)
                       ELSE [ok |-> FALSE, err |-> jsonString.err, val |-> <<>>]
       IN  /\ jout' = [ok |-> repaired.ok, val |-> repaired.val]
           /\ jphase' = IF repaired.ok THEN "repaired" ELSE "repair prompt"
    /\ UNCHANGED <<jdoc, jwrap, jtext, jclean>>
    /\ UNCHANGED <<svars, fvars, avars, uvars>>

\* ---------------------------------------------------- chromeAI.js

ErrNoApi == "Prompt API not available"
ErrUnavailable == "Model unavailable on this device/configuration"
ErrCreate == "Session creation failed"
ErrNoImages == "No images provided for extraction"
ErrUnrepairable == "AI returned invalid JSON that couldn't be repaired"
ErrNotSupported == "Multimodal image input not supported"
ErrQuota == "Image(s) too large for model"
ErrOther == "prompt failed"

NoError == [name |-> "", message |-> ""]
NoValue == <<"undefined", <<>>>>
MkError(n, m) == [name |-> n, message |-> m]

\* What LM.availability() resolves with.
AvailabilityStates == {"available", "downloadable", "unavailable"}

\* UserMessage with the image segments in reverse order.
UserMessage_Reversed(blobs) ==
    [role |-> "user",
     content |-> <<[type |-> "text", value |-> 0]>>
                 \o [i \in 1..Len(blobs) |->
                       [type |-> "image", value |-> blobs[Len(blobs) + 1 - i]]]]

\* userMessage: one text segment (value 0 stands for the instruction text
\* around schemaPrompt), then ...imageBlobs.map(blob => ({type: 'image', value: blob})).
UserMessage(blobs) ==
    [role |-> "user",
     content |-> <<[type |-> "text", value |-> 0]>>
                 \o [i \in 1..Len(blobs) |-> [type |-> "image", value |-> blobs[i]]]]

\* repairPrompt: the template literal around ${rawResult}, as the fixed text
\* before the interpolation, the interpolated text, and the fixed text after.
NoPrompt == [before |-> "", output |-> <<>>, after |-> ""]

RepairPromptText(raw) ==
    [before |-> "The following output was not valid JSON. Please fix it and return valid JSON only:\n\nOriginal output:\n",
     output |-> raw,
     after  |-> "\n\nReturn corrected JSON only, with no additional text or formatting:"]

\* The image lists a caller passes.
ImageLists == {<<>>, <<2, 1>>}

\* The texts the model answers with: nothing, a valid object, an object with
\* a trailing comma, prose with no brace or bracket, a truncated object, and
\* a JSON primitive.
RawTexts ==
    { <<>>, Chars("{\"a\":1}"), Chars("{\"a\":1,}"), Chars("no data"),
      Chars("{\"a\":"), Chars("null") }

\* An object that is valid JSON but for one trailing comma.
TrailingCommaText == Chars("{\"a\":1,}")

\* The texts the model answers the repair prompt with: nothing, a valid
\* object, an object with a trailing comma, and prose.
RepairTexts ==
    { <<>>, Chars("{\"a\":1}"), TrailingCommaText, Chars("no data") }

\* The errors a prompt call rejects with.
PromptErrors ==
    { MkError("NotSupportedError", ErrOther), MkError("QuotaExceededError", ErrOther),
      MkError("UnknownError", ErrOther) }

\* RecoverLocal with stage 2 run whatever stage 1 did.
RecoverLocal_AlwaysRepair(raw) ==
    LET jsonString == sanitizeJSON(raw)
        second == IF jsonString.ok THEN repairJSON(jsonString.text)
                  ELSE [ok |-> FALSE, err |-> jsonString.err, val |-> <<>>]
    IN  IF second.ok
        THEN [ok |-> TRUE, val |-> second.val,
              stages |-> <<"stage1 ok", "stage2 ok">>]
        ELSE [ok |-> FALSE, val |-> NoValue,
              stages |-> <<"stage1 failed", "stage2 failed">>]

\* Stages 1 and 2 on the first response (the two inner try blocks): the
\* parsed data, or failure of both, with the stages gone through.
RecoverLocal(raw) ==
    LET jsonString == sanitizeJSON(raw)
        first == IF jsonString.ok THEN JSONparse(jsonString.text)
                 ELSE [ok |-> FALSE, val |-> <<>>]
        second == IF jsonString.ok THEN repairJSON(jsonString.text)
                  ELSE [ok |-> FALSE, err |-> jsonString.err, val |-> <<>>]
    IN  IF first.ok
        THEN [ok |-> TRUE, val |-> first.val, stages |-> <<"stage1 ok">>]
        ELSE IF second.ok
        THEN [ok |-> TRUE, val |-> second.val,
              stages |-> <<"stage1 failed", "stage2 ok">>]
        ELSE [ok |-> FALSE, val |-> NoValue,
              stages |-> <<"stage1 failed", "stage2 failed">>]

\* The errors the two inner catch blocks catch on the first response:
\* parseError when stage 1 fails, then repairError when stage 2 fails.
CaughtErrors(raw) ==
    LET jsonString == sanitizeJSON(raw)
        parseError == IF jsonString.ok THEN MkError("SyntaxError", "Unexpected token")
                      ELSE MkError("Error", jsonString.err)
        repairError == IF jsonString.ok THEN MkError("Error", ErrRepair)
                       ELSE MkError("Error", jsonString.err)
    IN  IF jsonString.ok /\ JSONparse(jsonString.text).ok THEN <<>>
        ELSE IF jsonString.ok /\ repairJSON(jsonString.text).ok THEN <<parseError>>
        ELSE <<parseError, repairError>>

\* RecoverRepaired with the trailing-comma repair applied to the response too.
RecoverRepaired_WithRepair(repaired) ==
    LET repairedJsonString == sanitizeJSON(repaired)
        parsed == IF repairedJsonString.ok THEN repairJSON(repairedJsonString.text)
                  ELSE [ok |-> FALSE, val |-> <<>>]
    IN  IF ~repairedJsonString.ok
        THEN [ok |-> FALSE, val |-> NoValue,
              error |-> MkError("Error", repairedJsonString.err)]
        ELSE IF ~parsed.ok
        THEN [ok |-> FALSE, val |-> NoValue,
              error |-> MkError("SyntaxError", ErrOther)]
        ELSE [ok |-> TRUE, val |-> parsed.val, error |-> NoError]

\* Sanitize-then-parse on the repair response: the parsed data or the error
\* thrown into the outer catch.
RecoverRepaired(repaired) ==
    LET repairedJsonString == sanitizeJSON(repaired)
        parsed == IF repairedJsonString.ok THEN JSONparse(repairedJsonString.text)
                  ELSE [ok |-> FALSE, val |-> <<>>]
    IN  IF ~repairedJsonString.ok
        THEN [ok |-> FALSE, val |-> NoValue,
              error |-> MkError("Error", repairedJsonString.err)]
        ELSE IF ~parsed.ok
        THEN [ok |-> FALSE, val |-> NoValue,
              error |-> MkError("SyntaxError", "Unexpected token")]
        ELSE [ok |-> TRUE, val |-> parsed.val, error |-> NoError]

\* The recovery of every text the model can answer with.
LocalRecovery == [raw \in RawTexts |-> RecoverLocal(raw)]
RepairedRecovery == [raw \in RepairTexts |-> RecoverRepaired(raw)]
LocalErrors == [raw \in RawTexts |-> CaughtErrors(raw)]

\* MapError with every caught error thrown on as it is.
MapError_Raw(error) == error

\* The outer catch block: the error the caller gets for a caught error.
MapError(error) ==
    IF error.name = "SyntaxError" THEN MkError("Error", ErrUnrepairable)
    ELSE IF error.name = "NotSupportedError" THEN MkError("Error", ErrNotSupported)
    ELSE IF error.name = "QuotaExceededError" THEN MkError("Error", ErrQuota)
    ELSE error

\* getSessionUsage(): null without a session, else the usage figures read
\* from the handle in the module variable.
getSessionUsage(sess) ==
    IF sess = 0 THEN [snapshot |-> FALSE, of |-> 0]
    ELSE [snapshot |-> TRUE, of |-> sess]

\* SessionAfterReset with the module variable left as it is.
SessionAfterReset_Kept(sess) == sess

\* resetSession(): the module variable after it.
SessionAfterReset(sess) == 0

\* resetSession(): the handles' destroy counts after it.
DestroysAfterReset(sess, ds) ==
    IF sess # 0 THEN [ds EXCEPT ![sess] = @ + 1] ELSE ds

\* The call has settled: its locals are gone.
Settled(c) ==
    /\ held' = [held EXCEPT ![c] = 0]
    /\ imageBlobs' = [imageBlobs EXCEPT ![c] = <<>>]

SIdle ==
    /\ lmPresent = TRUE /\ session = 0 /\ modelParams = FALSE
    /\ createCalls = 0 /\ destroys = <<>>
    /\ pc = [c \in Calls |-> "idle"]
    /\ held = [c \in Calls |-> 0]
    /\ imageBlobs = [c \in Calls |-> <<>>]
    /\ rawResult = [c \in Calls |-> <<>>]
    /\ trail = [c \in Calls |-> <<>>]
    /\ value = [c \in Calls |-> NoValue]
    /\ err = [c \in Calls |-> NoError]
    /\ request = [c \in Calls |-> <<>>]
    /\ repairPrompt = [c \in Calls |-> NoPrompt]
    /\ repairedResult = [c \in Calls |-> <<>>]

\* The module is loaded: no session, no cached params, no call made yet.
SInit ==
    /\ lmPresent \in BOOLEAN /\ session = 0 /\ modelParams = FALSE
    /\ createCalls = 0 /\ destroys = <<>>
    /\ pc = [c \in Calls |-> "idle"]
    /\ held = [c \in Calls |-> 0]
    /\ imageBlobs = [c \in Calls |-> <<>>]
    /\ rawResult = [c \in Calls |-> <<>>]
    /\ trail = [c \in Calls |-> <<>>]
    /\ value = [c \in Calls |-> NoValue]
    /\ err = [c \in Calls |-> NoError]
    /\ request = [c \in Calls |-> <<>>]
    /\ repairPrompt = [c \in Calls |-> NoPrompt]
    /\ repairedResult = [c \in Calls |-> <<>>]

\* extractJSONFromImages is called and runs createSessionIfNeeded up to its
\* first await: a live session is returned as it is, a missing API throws,
\* otherwise LM.availability() is awaited.
Call(c) ==
    /\ pc[c] = "idle"
    /\ \E blobs \in ImageLists :
          IF session # 0
          THEN /\ held' = [held EXCEPT ![c] = session]
               /\ imageBlobs' = [imageBlobs EXCEPT ![c] = blobs]
               /\ pc' = [pc EXCEPT ![c] = "gotSession"]
               /\ err' = err
          ELSE IF ~lmPresent
          THEN /\ pc' = [pc EXCEPT ![c] = "thrown"]
               /\ err' = [err EXCEPT ![c] = MkError("Error", ErrNoApi)]
               /\ Settled(c)
          ELSE /\ pc' = [pc EXCEPT ![c] = "availability"]
               /\ imageBlobs' = [imageBlobs EXCEPT ![c] = blobs]
               /\ UNCHANGED <<held, err>>
    /\ UNCHANGED <<lmPresent, session, modelParams, createCalls, destroys,
                   rawResult, trail, value>>
    /\ UNCHANGED <<request, repairPrompt, repairedResult>>
    /\ UNCHANGED <<fvars, jvars, avars, uvars>>

\* Unavailable with the status never taken as 'unavailable'.
Unavailable_Never(availability) == FALSE

\* availability === 'unavailable'
Unavailable(availability) == availability = "unavailable"

\* createSessionIfNeeded of call c resumes with the status availability.
AvailabilityStep(c, availability) ==
    /\ pc[c] = "availability"
    /\ IF Unavailable(availability)
       THEN /\ pc' = [pc EXCEPT ![c] = "thrown"]
            /\ err' = [err EXCEPT ![c] = MkError("Error", ErrUnavailable)]
            /\ createCalls' = createCalls
            /\ Settled(c)
       ELSE IF ~modelParams
       THEN /\ pc' = [pc EXCEPT ![c] = "params"]
            /\ UNCHANGED <<err, createCalls, held, imageBlobs>>
       ELSE /\ pc' = [pc EXCEPT ![c] = "create"]
            /\ createCalls' = createCalls + 1
            /\ UNCHANGED <<err, held, imageBlobs>>
    /\ UNCHANGED <<lmPresent, session, modelParams, destroys, rawResult, trail, value>>
    /\ UNCHANGED <<request, repairPrompt, repairedResult>>
    /\ UNCHANGED <<fvars, jvars, avars, uvars>>

\* LM.availability() resolves: 'unavailable' throws, otherwise LM.params() is
\* awaited when nothing is cached, else LM.create is invoked.
AvailabilityResolves(c) ==
    \E availability \in AvailabilityStates : AvailabilityStep(c, availability)

\* LM.params() resolves: the params are cached and LM.create is invoked.
ParamsResolves(c) ==
    /\ pc[c] = "params"
    /\ modelParams' = TRUE
    /\ createCalls' = createCalls + 1
    /\ pc' = [pc EXCEPT ![c] = "create"]
    /\ UNCHANGED <<lmPresent, session, destroys, held, imageBlobs, rawResult,
                   trail, value, err>>
    /\ UNCHANGED <<request, repairPrompt, repairedResult>>
    /\ UNCHANGED <<fvars, jvars, avars, uvars>>

\* LM.availability() or LM.params() rejects: the error leaves the call as it is.
ProbeRejects(c) ==
    /\ pc[c] \in {"availability", "params"}
    /\ pc' = [pc EXCEPT ![c] = "thrown"]
    /\ err' = [err EXCEPT ![c] = MkError("UnknownError", ErrOther)]
    /\ Settled(c)
    /\ UNCHANGED <<lmPresent, session, modelParams, createCalls, destroys,
                   rawResult, trail, value>>
    /\ UNCHANGED <<request, repairPrompt, repairedResult>>
    /\ UNCHANGED <<fvars, jvars, avars, uvars>>

\* LM.create resolves with a new handle: it is stored in the module variable
\* and returned.
CreateResolves(c) ==
    /\ pc[c] = "create"
    /\ destroys' = Append(destroys, 0)
    /\ session' = Len(destroys) + 1
    /\ held' = [held EXCEPT ![c] = Len(destroys) + 1]
    /\ pc' = [pc EXCEPT ![c] = "gotSession"]
    /\ UNCHANGED <<lmPresent, modelParams, createCalls, imageBlobs, rawResult,
                   trail, value, err>>
    /\ UNCHANGED <<request, repairPrompt, repairedResult>>
    /\ UNCHANGED <<fvars, jvars, avars, uvars>>

\* LM.create rejects: createSessionIfNeeded wraps and rethrows.
CreateRejects(c) ==
    /\ pc[c] = "create"
    /\ pc' = [pc EXCEPT ![c] = "thrown"]
    /\ err' = [err EXCEPT ![c] = MkError("Error", ErrCreate)]
    /\ Settled(c)
    /\ UNCHANGED <<lmPresent, session, modelParams, createCalls, destroys,
                   rawResult, trail, value>>
    /\ UNCHANGED <<request, repairPrompt, repairedResult>>
    /\ UNCHANGED <<fvars, jvars, avars, uvars>>

\* The call resumes with its session: no images throws, outside the try
\* block; otherwise the user message is built and s.prompt is called.
SendPrompt(c) ==
    /\ pc[c] = "gotSession"
    /\ IF imageBlobs[c] = <<>>
       THEN /\ pc' = [pc EXCEPT ![c] = "thrown"]
            /\ err' = [err EXCEPT ![c] = MkError("Error", ErrNoImages)]
            /\ trail' = trail
            /\ request' = request
            /\ Settled(c)
       ELSE /\ pc' = [pc EXCEPT ![c] = "prompt"]
            /\ trail' = [trail EXCEPT ![c] = Append(@, "prompt")]
            /\ request' = [request EXCEPT ![c] = <<UserMessage(imageBlobs[c])>>]
            /\ UNCHANGED <<err, held, imageBlobs>>
    /\ UNCHANGED <<lmPresent, session, modelParams, createCalls, destroys,
                   rawResult, value>>
    /\ UNCHANGED <<repairPrompt, repairedResult>>
    /\ UNCHANGED <<fvars, jvars, avars, uvars>>

\* The first prompt resolves: stages 1 and 2 run; on success the session is
\* reset and the data returned, otherwise the repair prompt is sent.
PromptResolves(c) ==
    /\ pc[c] = "prompt"
    /\ \E raw \in RawTexts :
          LET r == LocalRecovery[raw]
          IN  /\ rawResult' = [rawResult EXCEPT ![c] = raw]
              /\ IF r.ok
                 THEN /\ trail' = [trail EXCEPT ![c] = @ \o r.stages]
                      /\ session' = SessionAfterReset(session)
                      /\ destroys' = DestroysAfterReset(session, destroys)
                      /\ value' = [value EXCEPT ![c] = r.val]
                      /\ pc' = [pc EXCEPT ![c] = "returned"]
                      /\ Settled(c)
                      /\ repairPrompt' = repairPrompt
                 ELSE /\ trail' = [trail EXCEPT ![c] = @ \o r.stages \o <<"repair prompt">>]
                      /\ pc' = [pc EXCEPT ![c] = "repair"]
                      /\ repairPrompt' = [repairPrompt EXCEPT ![c] = RepairPromptText(raw)]
                      /\ UNCHANGED <<session, destroys, value, held, imageBlobs>>
    /\ UNCHANGED <<lmPresent, modelParams, createCalls, err>>
    /\ UNCHANGED <<request, repairedResult>>
    /\ UNCHANGED <<fvars, jvars, avars, uvars>>

\* The repair prompt resolves: its response is sanitized and parsed; the
\* session is reset on either outcome.
RepairResolves(c) ==
    /\ pc[c] = "repair"
    /\ \E response \in RepairTexts :
          LET r == RepairedRecovery[response]
          IN  /\ repairedResult' = [repairedResult EXCEPT ![c] = response]
              /\ session' = SessionAfterReset(session)
              /\ destroys' = DestroysAfterReset(session, destroys)
              /\ IF r.ok
                 THEN /\ trail' = [trail EXCEPT ![c] = Append(@, "repair ok")]
                      /\ value' = [value EXCEPT ![c] = r.val]
                      /\ pc' = [pc EXCEPT ![c] = "returned"]
                      /\ err' = err
                 ELSE /\ trail' = [trail EXCEPT ![c] = Append(@, "repair failed")]
                      /\ err' = [err EXCEPT ![c] = MapError(r.error)]
                      /\ pc' = [pc EXCEPT ![c] = "thrown"]
                      /\ value' = value
    /\ Settled(c)
    /\ UNCHANGED <<lmPresent, modelParams, createCalls, rawResult>>
    /\ UNCHANGED <<request, repairPrompt>>
    /\ UNCHANGED <<fvars, jvars, avars, uvars>>

\* A prompt call (the first or the repair one) of call c rejects with error:
\* the outer catch resets the session and throws the mapped error.
PromptRejectStep(c, error) ==
    /\ pc[c] \in {"prompt", "repair"}
    /\ err' = [err EXCEPT ![c] = MapError(error)]
    /\ session' = SessionAfterReset(session)
    /\ destroys' = DestroysAfterReset(session, destroys)
    /\ trail' = [trail EXCEPT ![c] = Append(@, "prompt rejected")]
    /\ pc' = [pc EXCEPT ![c] = "thrown"]
    /\ Settled(c)
    /\ UNCHANGED <<lmPresent, modelParams, createCalls, rawResult, value>>
    /\ UNCHANGED <<request, repairPrompt, repairedResult>>
    /\ UNCHANGED <<fvars, jvars, avars, uvars>>

PromptRejects(c) == \E error \in PromptErrors : PromptRejectStep(c, error)

\* The caller serializes its attempts: extractJSONFromImages is called only
\* when no earlier call is still running.
SerialCall(c) ==
    /\ \A d \in Calls : pc[d] \in {"idle", "returned", "thrown"}
    /\ Call(c)

\* ------------------------------------------- chromeAI.js: availability

\* setTimeout(..., 5000)
TIMEOUT_MS == 5000

\* The tick at which the timer is due.
Deadline == (TIMEOUT_MS * TicksPerSecond) \div 1000

\* The clock is followed for one second past the deadline.
MaxClock == Deadline + TicksPerSecond

\* What LM.availability() can resolve with.
ProbeStatuses == AvailabilityStates \cup {"downloading"}

ErrTimeout == "Availability check timeout"
ErrNoAvailabilityFn == "LanguageModel.availability is not a function"
ErrProbe == "probe failed"

NoResult == [available |-> FALSE, status |-> "", error |-> ""]

\* The three shapes of object checkAvailability returns.
NoApiResult == [available |-> FALSE, status |-> "no-api", error |-> ""]
ErrorResult(message) == [available |-> FALSE, status |-> "error", error |-> message]
StatusResult(availability) ==
    [available |-> availability # "unavailable", status |-> availability, error |-> ""]

\* TimerDue with a timer that never comes due.
TimerDue_Never(clock) == FALSE

\* The timer set at tick 0 is due.
TimerDue(clock) == clock >= Deadline

AIdle ==
    /\ apc = "idle" /\ aprobe = "none" /\ atimer = "none" /\ aclock = 0
    /\ aresult = NoResult

\* checkAvailability() is called and runs to its await: without the API or
\* without LM.availability it returns at once, a throwing LM.availability()
\* is caught, otherwise the probe and the timer are started and raced.
CheckAvailability ==
    /\ apc = "idle"
    /\ \E env \in {"no-api", "no-function", "throws", "probes"} :
          IF env = "probes"
          THEN /\ apc' = "racing" /\ aprobe' = "pending" /\ atimer' = "armed"
               /\ aresult' = aresult
          ELSE /\ apc' = "returned"
               /\ aresult' = IF env = "no-api" THEN NoApiResult
                             ELSE IF env = "no-function" THEN ErrorResult(ErrNoAvailabilityFn)
                             ELSE ErrorResult(ErrProbe)
               /\ UNCHANGED <<aprobe, atimer>>
    /\ aclock' = 0
    /\ UNCHANGED <<svars, fvars, jvars, uvars>>

\* Time passes, unless the timer is due: a due timer runs first.
ATick ==
    /\ apc # "idle" /\ aclock < MaxClock
    /\ ~(atimer = "armed" /\ TimerDue(aclock))
    /\ aclock' = aclock + 1
    /\ UNCHANGED <<apc, aprobe, atimer, aresult>>
    /\ UNCHANGED <<svars, fvars, jvars, uvars>>

\* LM.availability() resolves: when the race is still open the call returns
\* the status, otherwise nothing happens.
AProbeFulfills ==
    /\ aprobe = "pending"
    /\ aprobe' = "fulfilled"
    /\ \E availability \in ProbeStatuses :
          IF apc = "racing"
          THEN apc' = "returned" /\ aresult' = StatusResult(availability)
          ELSE UNCHANGED <<apc, aresult>>
    /\ UNCHANGED <<atimer, aclock>>
    /\ UNCHANGED <<svars, fvars, jvars, uvars>>

\* LM.availability() rejects: when the race is still open the catch block
\* returns the error result.
AProbeRejects ==
    /\ aprobe = "pending"
    /\ aprobe' = "rejected"
    /\ IF apc = "racing"
       THEN apc' = "returned" /\ aresult' = ErrorResult(ErrProbe)
       ELSE UNCHANGED <<apc, aresult>>
    /\ UNCHANGED <<atimer, aclock>>
    /\ UNCHANGED <<svars, fvars, jvars, uvars>>

\* The timer fires and rejects the timeout promise: when the race is still
\* open the catch block returns the error result.
ATimerFires ==
    /\ atimer = "armed" /\ TimerDue(aclock)
    /\ atimer' = "fired"
    /\ IF apc = "racing"
       THEN apc' = "returned" /\ aresult' = ErrorResult(ErrTimeout)
       ELSE UNCHANGED <<apc, aresult>>
    /\ UNCHANGED <<aprobe, aclock>>
    /\ UNCHANGED <<svars, fvars, jvars, uvars>>

\* ------------------------------------------------------ specifications

\* ------------------------------------------- App.jsx: availability check

\* checkAIWithRetry = async (maxAttempts = 3)
DEFAULT_MAX_ATTEMPTS == 3

Checks == 1..NumChecks

\* What chromeAI.available() resolves with: the status of checkAvailability.
ResultStatuses ==
    {"readily", "available", "after-download", "downloadable", "downloading",
     "unavailable", "no-api", "error", "later"}

\* getAIStatus(): the state for the status of the result; its own catch
\* block turns anything thrown into the state 'error'.
getAIStatus(status) ==
    IF status \in {"readily", "available"} THEN "ready"
    ELSE IF status \in {"after-download", "downloadable"} THEN "downloadable"
    ELSE IF status = "downloading" THEN "downloading"
    ELSE IF status = "unavailable" THEN "unavailable"
    ELSE IF status = "no-api" THEN "unsupported"
    ELSE IF status = "error" THEN "error"
    ELSE "unknown"

\* The values of the maxAttempts parameter: the default when the function is
\* called with no argument, and the click event React passes to an onClick
\* handler.
DefaultMaxAttempts == [number |-> TRUE, n |-> DEFAULT_MAX_ATTEMPTS]
ClickEvent == [number |-> FALSE, n |-> 0]

\* LessThan with <= in the place of <.
LessThan_OrEqual(att, max) == max.number /\ att <= max.n

\* attempts < maxAttempts: an object on the right converts to NaN, and every
\* comparison with NaN is false.
LessThan(att, max) == max.number /\ att < max.n

\* useState({loading: true, available: false, state: 'checking'})
Checking == [loading |-> TRUE, available |-> FALSE, state |-> "checking"]

CIdle ==
    /\ effectActive = FALSE /\ isMountedRef = TRUE /\ checkInProgressRef = FALSE
    /\ aiStatus = Checking
    /\ cpc = [c \in Checks |-> "idle"]
    /\ attempts = [c \in Checks |-> 0]
    /\ maxAttempts = [c \in Checks |-> DefaultMaxAttempts]

\* The invocation that starts next.
NextCheck(c) == cpc[c] = "idle" /\ \A d \in 1..(c - 1) : cpc[d] # "idle"

\* The while condition with att attempts made: the body starts the next
\* probe, or the loop is left and the flag cleared.
LoopHead(c, att, max) ==
    IF LessThan(att, max) /\ isMountedRef'
    THEN /\ attempts' = [attempts EXCEPT ![c] = att + 1]
         /\ cpc' = [cpc EXCEPT ![c] = "probing"]
         /\ checkInProgressRef' = TRUE
    ELSE /\ attempts' = [attempts EXCEPT ![c] = att]
         /\ cpc' = [cpc EXCEPT ![c] = "done"]
         /\ checkInProgressRef' = FALSE

\* CheckAIWithRetry with the in-progress flag not looked at.
CheckAIWithRetry_NoGuard(c, max) ==
    /\ NextCheck(c)
    /\ maxAttempts' = [maxAttempts EXCEPT ![c] = max]
    /\ aiStatus' = IF isMountedRef' THEN Checking ELSE aiStatus
    /\ LoopHead(c, 0, max)

\* checkAIWithRetry(max) up to its first await: skipped while a check is in
\* progress; otherwise the flag is set, the status becomes 'checking', and
\* the loop is entered.
CheckAIWithRetry(c, max) ==
    /\ NextCheck(c)
    /\ maxAttempts' = [maxAttempts EXCEPT ![c] = max]
    /\ IF checkInProgressRef
       THEN /\ cpc' = [cpc EXCEPT ![c] = "skipped"]
            /\ UNCHANGED <<checkInProgressRef, aiStatus, attempts>>
       ELSE /\ aiStatus' = IF isMountedRef' THEN Checking ELSE aiStatus
            /\ LoopHead(c, 0, max)

\* The mount effect: isMountedRef.current = true; checkAIWithRetry().
MountEffect ==
    /\ ~effectActive
    /\ effectActive' = TRUE
    /\ isMountedRef' = TRUE
    /\ \E c \in Checks : CheckAIWithRetry(c, DefaultMaxAttempts)
    /\ UNCHANGED <<svars, fvars, jvars, avars, wvars>>

\* The cleanup of the mount effect.
EffectCleanup ==
    /\ effectActive
    /\ effectActive' = FALSE
    /\ isMountedRef' = FALSE
    /\ UNCHANGED <<checkInProgressRef, aiStatus, cpc, attempts, maxAttempts>>
    /\ UNCHANGED <<svars, fvars, jvars, avars, wvars>>

\* The user clicks 'Try Again', which is rendered when the status is not
\* loading, not available, and 'error' or 'unavailable': React calls
\* checkAIWithRetry with the click event.
TryAgain ==
    /\ effectActive
    /\ ~aiStatus.loading /\ ~aiStatus.available
    /\ aiStatus.state \in {"error", "unavailable"}
    /\ UNCHANGED <<effectActive, isMountedRef>>
    /\ \E c \in Checks : CheckAIWithRetry(c, ClickEvent)
    /\ UNCHANGED <<svars, fvars, jvars, avars, wvars>>

\* await getAIStatus() resolves for an invocation, with the state for status.
ProbeStep(c, status) ==
    LET state == getAIStatus(status)
    IN  /\ cpc[c] = "probing"
        /\ IF ~isMountedRef
           THEN /\ cpc' = [cpc EXCEPT ![c] = "done"]
                /\ checkInProgressRef' = FALSE
                /\ aiStatus' = aiStatus
           ELSE IF state \in {"ready", "downloadable"}
           THEN /\ aiStatus' = [loading |-> FALSE, available |-> TRUE, state |-> state]
                /\ cpc' = [cpc EXCEPT ![c] = "done"]
                /\ checkInProgressRef' = FALSE
           ELSE IF state \in {"downloading", "unavailable"}
                   /\ LessThan(attempts[c], maxAttempts[c])
           THEN /\ cpc' = [cpc EXCEPT ![c] = "waiting"]
                /\ UNCHANGED <<checkInProgressRef, aiStatus>>
           ELSE /\ aiStatus' = [loading |-> FALSE, available |-> FALSE, state |-> state]
                /\ cpc' = [cpc EXCEPT ![c] = "done"]
                /\ checkInProgressRef' = FALSE
        /\ UNCHANGED <<effectActive, isMountedRef, attempts, maxAttempts>>
        /\ UNCHANGED <<svars, fvars, jvars, avars, wvars>>

ProbeResolves == \E c \in Checks, status \in ResultStatuses : ProbeStep(c, status)

\* The one-second delay before a retry is over: the loop goes on.
DelayElapses ==
    \E c \in Checks :
        /\ cpc[c] = "waiting"
        /\ UNCHANGED <<effectActive, isMountedRef, aiStatus, maxAttempts>>
        /\ LoopHead(c, attempts[c], maxAttempts[c])
        /\ UNCHANGED <<svars, fvars, jvars, avars, wvars>>

\* ------------------------------------------ App.jsx: conversion modal

Uploads == 1..NumUploads

\* The pages processFiles returns for upload u when it returns n of them.
PagesOf(u, n) == [k \in 1..n |-> [upload |-> u, page |-> k]]

\* createPreviewURL for each of n blobs: n new object URLs.
NewUrls(first, n) == [k \in 1..n |-> first + k]

\* The elements of a list of URLs.
UrlSet(urls) == {urls[k] : k \in 1..Len(urls)}

WIdle ==
    /\ view = "home" /\ instance = 0
    /\ upc = [u \in Uploads |-> "idle"]
    /\ uinst = [u \in Uploads |-> 0]
    /\ uiFiles = 0 /\ processedImages = <<>>
    /\ previewUrls = <<>> /\ schemaUrls = <<>>
    /\ urlCount = 0 /\ revoked = {}

UIdle == CIdle /\ WIdle

\* UploadStep is mounted: a new instance with previewUrls = [].
MountUploadStep ==
    /\ instance' = instance + 1
    /\ previewUrls' = <<>>

\* SchemaStep is mounted with the pages imgs: its effect creates their URLs.
MountSchemaStep(first, imgs) == NewUrls(first, Len(imgs))

\* 'Convert to JSON': the modal opens on the upload step.
OnStart ==
    /\ view = "home" /\ instance < MaxMounts
    /\ view' = "upload"
    /\ MountUploadStep
    /\ UNCHANGED <<upc, uinst, uiFiles, processedImages, schemaUrls, urlCount, revoked>>
    /\ UNCHANGED <<svars, fvars, jvars, avars, cvars>>

\* handleFileUpload up to await processFiles(uploadedFiles).
UploadChange ==
    /\ view = "upload"
    /\ \E u \in Uploads :
          /\ upc[u] = "idle" /\ \A v \in 1..(u - 1) : upc[v] # "idle"
          /\ upc' = [upc EXCEPT ![u] = "processing"]
          /\ uinst' = [uinst EXCEPT ![u] = instance]
          /\ uiFiles' = u
    /\ UNCHANGED <<view, instance, processedImages, previewUrls, schemaUrls, urlCount, revoked>>
    /\ UNCHANGED <<svars, fvars, jvars, avars, cvars>>

\* processFiles resolves with n pages: setProcessedImages, a preview URL
\* per page, setPreviewUrls. The state of an UploadStep that is no longer
\* mounted does not change; a mounted one re-renders and the cleanup of its
\* effect revokes the URLs it showed before. A mounted SchemaStep runs its
\* effect again for the new array: cleanup, then a URL per page.
ProcessFilesReturns(u, n) ==
    LET urls == NewUrls(urlCount, n)
        shown == view = "upload" /\ uinst[u] = instance
        again == view = "schema"
        sUrls == IF again THEN NewUrls(urlCount + n, n) ELSE schemaUrls
    IN  /\ upc[u] = "processing"
        /\ urlCount + 2 * n <= MaxUrls
        /\ upc' = [upc EXCEPT ![u] = "done"]
        /\ processedImages' = PagesOf(u, n)
        /\ previewUrls' = IF shown THEN urls ELSE previewUrls
        /\ schemaUrls' = sUrls
        /\ urlCount' = urlCount + n + (IF again THEN n ELSE 0)
        /\ revoked' = revoked \cup (IF shown THEN UrlSet(previewUrls) ELSE {})
                               \cup (IF again THEN UrlSet(schemaUrls) ELSE {})
        /\ UNCHANGED <<view, instance, uinst, uiFiles>>
        /\ UNCHANGED <<svars, fvars, jvars, avars, cvars>>

ProcessFilesResolves ==
    \E u \in Uploads, n \in 0..MaxUploadPages : ProcessFilesReturns(u, n)

\* processFiles rejects: the catch block alerts and nothing else changes.
ProcessFilesRejects ==
    /\ \E u \in Uploads :
          /\ upc[u] = "processing"
          /\ upc' = [upc EXCEPT ![u] = "failed"]
    /\ UNCHANGED <<view, instance, uinst, uiFiles, processedImages, previewUrls,
                   schemaUrls, urlCount, revoked>>
    /\ UNCHANGED <<svars, fvars, jvars, avars, cvars>>

\* 'Clear all', shown with the pages of the upload step.
ClearAll ==
    /\ view = "upload" /\ processedImages # <<>>
    /\ uiFiles' = 0 /\ processedImages' = <<>>
    /\ previewUrls' = <<>>
    /\ revoked' = revoked \cup UrlSet(previewUrls)
    /\ UNCHANGED <<view, instance, upc, uinst, schemaUrls, urlCount>>
    /\ UNCHANGED <<svars, fvars, jvars, avars, cvars>>

\* 'Next: Define Schema': UploadStep is unmounted, SchemaStep mounted.
NextStep ==
    /\ view = "upload" /\ processedImages # <<>>
    /\ urlCount + Len(processedImages) <= MaxUrls
    /\ view' = "schema"
    /\ revoked' = revoked \cup UrlSet(previewUrls)
    /\ previewUrls' = <<>>
    /\ schemaUrls' = MountSchemaStep(urlCount, processedImages)
    /\ urlCount' = urlCount + Len(processedImages)
    /\ UNCHANGED <<instance, upc, uinst, uiFiles, processedImages>>
    /\ UNCHANGED <<svars, fvars, jvars, avars, cvars>>

\* 'Back': SchemaStep is unmounted, UploadStep mounted again.
BackStep ==
    /\ view = "schema" /\ instance < MaxMounts
    /\ view' = "upload"
    /\ revoked' = revoked \cup UrlSet(schemaUrls)
    /\ schemaUrls' = <<>>
    /\ MountUploadStep
    /\ UNCHANGED <<upc, uinst, uiFiles, processedImages, urlCount>>
    /\ UNCHANGED <<svars, fvars, jvars, avars, cvars>>

\* handleReset: the modal is closed, or the results page left.
HandleReset ==
    /\ view \in {"upload", "schema", "results"}
    /\ view' = "home"
    /\ uiFiles' = 0 /\ processedImages' = <<>>
    /\ revoked' = revoked \cup UrlSet(previewUrls) \cup UrlSet(schemaUrls)
    /\ previewUrls' = <<>> /\ schemaUrls' = <<>>
    /\ UNCHANGED <<instance, upc, uinst, urlCount>>
    /\ UNCHANGED <<svars, fvars, jvars, avars, cvars>>

\* handleProcess: the pages in processedImages go to extractJSONFromImages.
HandleProcess ==
    /\ view = "schema"
    /\ view' = "loading"
    /\ revoked' = revoked \cup UrlSet(schemaUrls)
    /\ schemaUrls' = <<>>
    /\ UNCHANGED <<instance, upc, uinst, uiFiles, processedImages, previewUrls, urlCount>>
    /\ UNCHANGED <<svars, fvars, jvars, avars, cvars>>

\* extractJSONFromImages resolves: the results page.
ExtractionReturns ==
    /\ view = "loading"
    /\ view' = "results"
    /\ UNCHANGED <<instance, upc, uinst, uiFiles, processedImages, previewUrls,
                   schemaUrls, urlCount, revoked>>
    /\ UNCHANGED <<svars, fvars, jvars, avars, cvars>>

\* extractJSONFromImages rejects: back to the schema step of the modal.
ExtractionFails ==
    /\ view = "loading"
    /\ urlCount + Len(processedImages) <= MaxUrls
    /\ view' = "schema"
    /\ schemaUrls' = MountSchemaStep(urlCount, processedImages)
    /\ urlCount' = urlCount + Len(processedImages)
    /\ UNCHANGED <<instance, upc, uinst, uiFiles, processedImages, previewUrls, revoked>>
    /\ UNCHANGED <<svars, fvars, jvars, avars, cvars>>

\* Extraction calls, overlapping in any way the event loop allows.
Init == SInit /\ FIdle /\ JIdle /\ AIdle /\ UIdle

Next ==
    \E c \in Calls :
        \/ Call(c)
        \/ AvailabilityResolves(c)
        \/ ParamsResolves(c)
        \/ ProbeRejects(c)
        \/ CreateResolves(c)
        \/ CreateRejects(c)
        \/ SendPrompt(c)
        \/ PromptResolves(c)
        \/ RepairResolves(c)
        \/ PromptRejects(c)

Spec == Init /\ [][Next]_vars

\* Extraction attempts, each started after the one before it has finished.
NextSerial ==
    \E c \in Calls :
        \/ SerialCall(c)
        \/ AvailabilityResolves(c)
        \/ ParamsResolves(c)
        \/ ProbeRejects(c)
        \/ CreateResolves(c)
        \/ CreateRejects(c)
        \/ SendPrompt(c)
        \/ PromptResolves(c)
        \/ RepairResolves(c)
        \/ PromptRejects(c)

SpecSerial == Init /\ [][NextSerial]_vars

\* The component's availability checks: mount, cleanup, clicks, probes.
InitApp == UIdle /\ SIdle /\ FIdle /\ JIdle /\ AIdle

NextApp ==
    \/ MountEffect
    \/ EffectCleanup
    \/ TryAgain
    \/ ProbeResolves
    \/ DelayElapses

SpecApp == InitApp /\ [][NextApp]_vars

\* The conversion modal: uploads, steps, previews.
InitModal == UIdle /\ SIdle /\ FIdle /\ JIdle /\ AIdle

NextModal ==
    \/ OnStart
    \/ UploadChange
    \/ ProcessFilesResolves
    \/ ProcessFilesRejects
    \/ ClearAll
    \/ NextStep
    \/ BackStep
    \/ HandleReset
    \/ HandleProcess
    \/ ExtractionReturns
    \/ ExtractionFails

SpecModal == InitModal /\ [][NextModal]_vars

\* One processFiles call on any list of files.
InitFiles == FInit /\ SIdle /\ JIdle /\ AIdle /\ UIdle

NextFiles ==
    \/ PF_Image
    \/ PF_Skip
    \/ PF_PdfOpen
    \/ PF_PdfOpenFail
    \/ PDF_GetPage
    \/ PDF_Render
    \/ PDF_Encode
    \/ PDF_PageFail
    \/ PF_PdfDone
    \/ PF_Return

SpecFiles == InitFiles /\ [][NextFiles]_vars

\* One upload through handleFileUpload and processFiles.
InitUpload == FIdle /\ SIdle /\ JIdle /\ AIdle /\ UIdle

NextUpload ==
    \/ HandleFileUpload
    \/ PF_Image
    \/ PF_Skip
    \/ PF_PdfOpen
    \/ PF_PdfOpenFail
    \/ PDF_GetPage
    \/ PDF_Render
    \/ PDF_Encode
    \/ PDF_PageFail
    \/ PF_PdfDone
    \/ PF_Return

SpecUpload == InitUpload /\ [][NextUpload]_vars

\* One checkAvailability call, with the probe settling at any time or never.
InitAvailability == AIdle /\ SIdle /\ FIdle /\ JIdle /\ UIdle

NextAvailability ==
    \/ CheckAvailability
    \/ ATick
    \/ AProbeFulfills
    \/ AProbeRejects
    \/ ATimerFires

SpecAvailability == InitAvailability /\ [][NextAvailability]_vars

\* One document through serialization and stage 1.
InitJSON == JInit /\ SIdle /\ FIdle /\ AIdle /\ UIdle

NextJSON ==
    \/ JSerialize
    \/ JWrap
    \/ JSanitize
    \/ JParse

SpecJSON == InitJSON /\ [][NextJSON]_vars

\* One document inside prose through serialization and stage 1.
InitProse ==
    /\ jdoc \in ProseDocs
    /\ jphase = "doc" /\ jwrap = "none" /\ jtext = <<>>
    /\ jclean = [ok |-> FALSE, err |-> "", text |-> <<>>]
    /\ jout = [ok |-> FALSE, val |-> <<>>]
    /\ SIdle /\ FIdle /\ AIdle /\ UIdle

NextProse ==
    \/ JSerialize
    \/ JProse
    \/ JSanitize
    \/ JParse

SpecProse == InitProse /\ [][NextProse]_vars

\* Stages 1 and 2 on the text of one document, with or without trailing commas.
InitRepair ==
    /\ jdoc \in CommaDocs
    /\ jphase = "doc" /\ jwrap = "none" /\ jtext = <<>>
    /\ jclean = [ok |-> FALSE, err |-> "", text |-> <<>>]
    /\ jout = [ok |-> FALSE, val |-> <<>>]
    /\ SIdle /\ FIdle /\ AIdle /\ UIdle

NextRepair ==
    \/ JSerialize
    \/ JTrailingCommas
    \/ JSanitize
    \/ JParse
    \/ JRepair

SpecRepair == InitRepair /\ [][NextRepair]_vars

\* ------------------------------------------------------------- claims

Finished(c) == pc[c] \in {"returned", "thrown"}
InFlight(c) == pc[c] \notin {"idle", "returned", "thrown"}

\* How many entries of the trail tr are in the set es.
Count(tr, es) == Cardinality({k \in 1..Len(tr) : tr[k] \in es})

\* The prompt calls a call has made.
Prompts(c) == Count(trail[c], {"prompt", "repair prompt"})

\* C1 (as claimed): once a call has finished and none is in flight, the
\* module's session handle is null.
C1_SessionNullAfterCall ==
    ((\E c \in Calls : Finished(c)) /\ (\A c \in Calls : ~InFlight(c)))
        => session = 0

\* The handles that were created and not destroyed.
LiveHandles == {h \in 1..Len(destroys) : destroys[h] = 0}

\* C2 (as claimed): at most one handle is created and not yet destroyed, and
\* overlapping calls invoke LM.create once.
C2_SingleHandle ==
    /\ Cardinality(LiveHandles) <= 1
    /\ Cardinality({c \in Calls : pc[c] = "create"}) <= 1

\* C3: processFiles never returns more than MAX_PAGES artifacts.
C3_PageBudget == fpc = "returned" => Len(fout) <= MAX_PAGES

C3_Witness ==
    /\ fpc = "returned" /\ Len(results) > MAX_PAGES /\ Len(fout) = MAX_PAGES
    /\ \E i, j, k \in 1..Len(files) :
          /\ IsImage(files[i]) /\ files[j].type = PdfType
          /\ files[j].pages > MAX_PAGES /\ files[k].type = OtherType

\* The artifacts of file i: one for an image, one per rendered page of a PDF
\* in ascending page order, none for any other type.
FileArtifacts(f, i) ==
    IF f.type \in {ImageType, GifType} THEN <<ImageArtifact(i)>>
    ELSE IF f.type = PdfType
    THEN [k \in 1..(IF f.pages < MAX_PAGES THEN f.pages ELSE MAX_PAGES)
            |-> PageArtifact(i, k)]
    ELSE <<>>

RECURSIVE ArtifactsFrom(_, _)
\* The artifacts of the files from index i on, concatenated in upload order.
ArtifactsFrom(fs, i) ==
    IF i > Len(fs) THEN <<>>
    ELSE FileArtifacts(fs[i], i) \o ArtifactsFrom(fs, i + 1)

\* C4: processFiles returns the first min(MAX_PAGES, total) artifacts of the
\* files' artifacts concatenated in upload order.
C4_UploadOrderPrefix ==
    fpc = "returned" =>
        LET all == ArtifactsFrom(files, 1)
            n == IF Len(all) < MAX_PAGES THEN Len(all) ELSE MAX_PAGES
        IN  fout = SubSeq(all, 1, n)

C4_Witness ==
    /\ fpc = "returned" /\ Len(results) = 5
    /\ fout = <<PageArtifact(1, 1), PageArtifact(1, 2), ImageArtifact(2)>>

\* Sanitize-then-parse succeeds on each text the model can answer with.
Stage1Succeeds ==
    [raw \in RawTexts |->
        sanitizeJSON(raw).ok /\ JSONparse(sanitizeJSON(raw).text).ok]

\* Sanitize-then-repair succeeds on each text the model can answer with.
Stage2Succeeds ==
    [raw \in RawTexts |->
        sanitizeJSON(raw).ok /\ repairJSON(sanitizeJSON(raw).text).ok]

\* C5: stage 2 runs only right after stage 1 failed, the repair prompt is sent
\* only right after stage 2 failed and at most once, and a call prompts the
\* model at most twice.
C5_StagesInOrder ==
    \A c \in Calls :
        LET tr == trail[c]
        IN  /\ \A k \in 1..Len(tr) :
                  /\ tr[k] \in {"stage2 ok", "stage2 failed"}
                        => /\ k > 1 /\ tr[k - 1] = "stage1 failed"
                           /\ ~Stage1Succeeds[rawResult[c]]
                  /\ tr[k] = "repair prompt"
                        => /\ k > 1 /\ tr[k - 1] = "stage2 failed"
                           /\ ~Stage2Succeeds[rawResult[c]]
                  /\ tr[k] \in {"stage1 ok", "stage1 failed"}
                        => (k > 1 /\ tr[k - 1] = "prompt")
            /\ Count(tr, {"repair prompt"}) <= 1
            /\ Count(tr, {"stage1 ok", "stage1 failed"}) <= 1
            /\ Prompts(c) <= 2

C5_Witness ==
    \E c \in Calls :
        /\ pc[c] = "returned"
        /\ trail[c] = <<"prompt", "stage1 failed", "stage2 failed",
                        "repair prompt", "repair ok">>
        /\ \E d \in Calls :
              trail[d] = <<"prompt", "stage1 failed", "stage2 ok">>

\* C6 (as claimed): an empty first response fails the call at once with the
\* empty-response error, after one prompt and with no stage 2 or 3.
C6_EmptyFailsAtOnce ==
    \A c \in Calls :
        (rawResult[c] = <<>> /\ Count(trail[c], {"stage1 failed"}) = 1) =>
            /\ pc[c] = "thrown"
            /\ err[c].message = ErrEmpty
            /\ Prompts(c) = 1
            /\ Count(trail[c], {"stage2 ok", "stage2 failed", "repair prompt"}) = 0

\* C7 (as claimed): when all three stages failed, the caller gets the
\* classified could-not-be-repaired error.
C7_ClassifiedError ==
    \A c \in Calls :
        (pc[c] = "thrown" /\ Count(trail[c], {"repair failed"}) = 1) =>
            err[c] = MkError("Error", ErrUnrepairable)

\* C8: a call that returned delivers a parsed JSON object or array and no
\* error; a call that threw delivers an error and no value; nothing is
\* delivered before the call ends.
C8_ObjectArrayOrError ==
    \A c \in Calls :
        /\ pc[c] = "returned" =>
              (value[c][1] \in {"obj", "arr"} /\ err[c] = NoError)
        /\ pc[c] = "thrown" => (value[c] = NoValue /\ err[c] # NoError)
        /\ ~Finished(c) => (value[c] = NoValue /\ err[c] = NoError)

C8_Witness ==
    \E c, d \in Calls :
        /\ pc[c] = "returned" /\ value[c][1] = "obj"
        /\ Count(trail[c], {"repair ok"}) = 1
        /\ pc[d] = "thrown" /\ rawResult[d] = Chars("null")
        /\ Count(trail[d], {"repair failed"}) = 1

RECURSIVE StringsOf(_)
\* The strings of a JSON value: its string values and its keys.
StringsOf(v) ==
    IF v[1] = "str" THEN {v[2]}
    ELSE IF v[1] = "arr" THEN UNION {StringsOf(v[2][k]) : k \in 1..Len(v[2])}
    ELSE IF v[1] = "obj"
    THEN UNION {{v[2][k][1]} \cup StringsOf(v[2][k][2]) : k \in 1..Len(v[2])}
    ELSE {}

\* The text cs holds a code-fence marker.
HasFence(cs) == \E i \in 1..Len(cs) : ExactAt(cs, i, Fence)

NoFenceMarkers(v) == \A cs \in StringsOf(v) : ~HasFence(cs)

\* C9 (as claimed): serializing any document and passing the text through
\* sanitizeJSON and JSON.parse gives the document back.
C9_RoundTrip ==
    jwrap = "none" =>
        /\ jphase = "sanitized" => jclean.ok
        /\ jphase = "parsed" => (jout.ok /\ jout.val = jdoc)

\* C10: a document whose strings hold no fence marker, wrapped in an optional
\* known prefix and a json code fence, is recovered by stage 1 as it was.
C10_FencedRecovered ==
    (jwrap = "fenced" /\ NoFenceMarkers(jdoc)) =>
        /\ jphase = "sanitized" => jclean.ok
        /\ jphase = "parsed" => (jout.ok /\ jout.val = jdoc)

C10_Witness ==
    /\ jwrap = "fenced" /\ jphase = "parsed"
    /\ MatchAt(jtext, 1, Chars("here's the json: ") \o FenceJson \o <<NL>>)
    /\ jout.ok /\ jout.val = jdoc
    /\ \E cs \in StringsOf(jdoc) : Len(cs) = 3 /\ cs[1] = BT /\ cs[2] = BT /\ cs[3] = DQ

\* C11 (as claimed): for the text of a document with trailing commas before
\* its closing braces and brackets, stage 1 fails, stage 2 returns the
\* document, and no repair prompt is sent.
C11_TrailingCommasRepaired ==
    jwrap = "commas" =>
        /\ jphase = "parsed" => ~jout.ok
        /\ jphase # "repair prompt"
        /\ jphase = "repaired" => (jout.ok /\ jout.val = jdoc)

\* The text is not empty and holds no opening brace or bracket.
NoBraceOrBracket(t) == t # <<>> /\ IndexOf(t, "{") = -1 /\ IndexOf(t, "[") = -1

\* C12: when the first response has no '{' and no '[', stage 1 and stage 2
\* each end in sanitizeJSON's own Error, nothing is thrown to the caller, and
\* the repair prompt is sent next.
C12_NoJSONEscalates ==
    \A c \in Calls :
        NoBraceOrBracket(rawResult[c]) =>
            /\ LocalErrors[rawResult[c]]
                 = <<MkError("Error", ErrNoJSON), MkError("Error", ErrNoJSON)>>
            /\ Len(trail[c]) >= 4
            /\ SubSeq(trail[c], 1, 4)
                 = <<"prompt", "stage1 failed", "stage2 failed", "repair prompt">>

C12_Witness ==
    \E c \in Calls :
        /\ rawResult[c] = Chars("no data") /\ pc[c] = "repair"
        /\ value[c] = NoValue /\ err[c] = NoError

\* C13: the step in which a call learns that the status is 'unavailable'
\* throws the descriptive Error, invokes no LM.create and leaves the session
\* variable as it is (null when it was null); the call takes no step after it.
C13_UnavailableFailsFast ==
    [][\A c \in Calls :
          /\ AvailabilityStep(c, "unavailable") =>
                /\ pc'[c] = "thrown"
                /\ err'[c] = MkError("Error", ErrUnavailable)
                /\ createCalls' = createCalls
                /\ session' = session /\ destroys' = destroys
                /\ held'[c] = 0
          /\ pc[c] = "thrown" => pc'[c] = "thrown" /\ err'[c] = err[c]]_vars

C13_Witness ==
    \E c \in Calls :
        /\ pc[c] = "thrown" /\ err[c] = MkError("Error", ErrUnavailable)
        /\ createCalls = 0 /\ session = 0 /\ destroys = <<>>

\* The user-facing message for the two errors of s.prompt the catch knows.
UserFacing(name) ==
    IF name = "NotSupportedError" THEN ErrNotSupported ELSE ErrQuota

\* C14: when the extraction prompt or the repair prompt rejects with
\* NotSupportedError or QuotaExceededError, the call throws the mapped
\* user-facing Error, not the raw one, and the session variable is null
\* after that step.
C14_PromptErrorsMapped ==
    [][\A c \in Calls : \A error \in PromptErrors :
          (error.name \in {"NotSupportedError", "QuotaExceededError"}
             /\ PromptRejectStep(c, error)) =>
                /\ pc'[c] = "thrown"
                /\ err'[c] = MkError("Error", UserFacing(error.name))
                /\ err'[c] # error
                /\ session' = 0
                /\ session # 0 => destroys'[session] = destroys[session] + 1]_vars

C14_Witness ==
    \E c, d \in Calls :
        /\ pc[c] = "thrown" /\ err[c] = MkError("Error", ErrNotSupported)
        /\ trail[c] = <<"prompt", "prompt rejected">>
        /\ pc[d] = "thrown" /\ err[d] = MkError("Error", ErrQuota)
        /\ trail[d] = <<"prompt", "stage1 failed", "stage2 failed",
                        "repair prompt", "prompt rejected">>
        /\ session = 0

\* C15: once rasterizing a PDF has failed, processFiles has rejected and
\* returned nothing, whatever was converted before, and no file after the
\* failing one is rendered or turned into an artifact.
C15_FailFast ==
    /\ fpc = "rejected" <=> ferr # <<>>
    /\ ferr # <<>> =>
          /\ fout = <<>>
          /\ fileIdx \in 1..Len(files) /\ files[fileIdx].type = PdfType
          /\ \A k \in 1..Len(results) : results[k].file < fileIdx
          /\ \A k \in 1..Len(rendered) : rendered[k][1] <= fileIdx

C15_Witness ==
    /\ fpc = "rejected" /\ fout = <<>>
    /\ fileIdx = 3 /\ Len(files) = 4
    /\ results = <<ImageArtifact(1), PageArtifact(2, 1), PageArtifact(2, 2)>>
    /\ files[4].type = PdfType

\* The message holds the part x.
Mentions(message, x) == \E k \in 1..Len(message) : message[k] = x

\* C16 (as claimed): the error processFiles throws when rasterizing a PDF
\* fails holds the name of the file that failed.
C16_ErrorNamesFile ==
    ferr # <<>> => Mentions(ferr, FileName(fileIdx))

\* Rasterizing stopped inside the page loop, at page pageNum.
PageFailed == fpc = "rejected" /\ pageNum \in 1..numPages

\* C17: when page k of a PDF fails, the error is the page error for k, and
\* no page of that file, among them the k-1 pages already encoded, is
\* returned or kept in the results.
C17_PageFailureFailsFile ==
    PageFailed =>
        /\ Mentions(ferr, PageNumber(pageNum))
        /\ \A k \in 1..Len(ferr) : ferr[k].part = "pageNum" => ferr[k].n = pageNum
        /\ Len(images) \in {pageNum - 1, pageNum}
        /\ \A k \in 1..Len(results) : results[k].file # fileIdx
        /\ fout = <<>>

C17_Witness ==
    /\ PageFailed /\ pageNum = 3 /\ pageStep = "rendered"
    /\ images = <<PageArtifact(fileIdx, 1), PageArtifact(fileIdx, 2)>>
    /\ ferr = BatchError(PageError(3, Cause))

\* C18: the step processFiles takes for a file is fixed by the file's type:
\* an image/* file adds one artifact that is the file itself and nothing
\* else happens; a PDF goes to the rasterizer, which opens it or fails; a
\* file of any other type adds nothing, raises nothing, and the loop goes on
\* with the next file.
C18_RoutingByType ==
    [][(fpc = "loop" /\ fileIdx <= Len(files)) =>
          LET f == files[fileIdx]
          IN  /\ f.type \in {ImageType, GifType} =>
                    /\ results' = Append(results, ImageArtifact(fileIdx))
                    /\ fpc' = "loop" /\ fileIdx' = fileIdx + 1
                    /\ rendered' = rendered /\ ferr' = <<>>
              /\ f.type = PdfType =>
                    /\ fpc' \in {"pdf", "rejected"}
                    /\ results' = results /\ fileIdx' = fileIdx
              /\ f.type \notin {ImageType, GifType, PdfType} =>
                    /\ results' = results
                    /\ fpc' = "loop" /\ fileIdx' = fileIdx + 1
                    /\ rendered' = rendered /\ ferr' = <<>>]_vars

C18_Witness ==
    /\ fpc = "returned" /\ ferr = <<>>
    /\ Len(files) = 4
    /\ files[1].type = GifType /\ files[2].type = OtherType
    /\ files[3].type = ImageType /\ files[4].type = PdfType
    /\ fout = <<ImageArtifact(1), ImageArtifact(3), PageArtifact(4, 1)>>

\* The pages of file i that were rendered, in the order of rendering.
RenderedOf(i) == SelectSeq(rendered, LAMBDA r : r[1] = i)

\* min(P, MAX_PAGES) for a PDF f with P pages.
Budget(f) == IF f.pages < MAX_PAGES THEN f.pages ELSE MAX_PAGES

\* C19: the pages rendered of a PDF are 1, 2, ... in this order and never go
\* beyond min(P, MAX_PAGES); once the PDF is converted they are exactly
\* 1..min(P, MAX_PAGES); the page being fetched or rendered is within it too.
C19_RendersBudgetedPages ==
    /\ \A i \in 1..Len(files) :
          LET rs == RenderedOf(i)
          IN  /\ \A k \in 1..Len(rs) : rs[k][2] = k
              /\ files[i].type = PdfType => Len(rs) <= Budget(files[i])
              /\ files[i].type # PdfType => rs = <<>>
              /\ (files[i].type = PdfType /\ i < fileIdx) =>
                    Len(rs) = Budget(files[i])
    /\ pageStep \in {"fetched", "rendered"} =>
          pageNum \in 1..Budget(files[fileIdx])

C19_Witness ==
    /\ fpc = "returned" /\ Len(files) = 2
    /\ files[1] = [type |-> PdfType, pages |-> MAX_PAGES + 1]
    /\ files[2] = [type |-> PdfType, pages |-> 2]
    /\ rendered = <<<<1, 1>>, <<1, 2>>, <<1, 3>>, <<2, 1>>, <<2, 2>>>>

\* The artifacts made so far: returned, collected, or of the PDF in work.
ArtifactsMade ==
    {fout[k] : k \in 1..Len(fout)} \cup {results[k] : k \in 1..Len(results)}
    \cup {images[k] : k \in 1..Len(images)}

\* C20 (as claimed): in the upload flow no artifact comes from a file that
\* validateFile rejects (over 50 MB, or a type that is not on the allow-list).
C20_InvalidFilesRejected ==
    \A a \in ArtifactsMade : validateFile(files[a.file]).valid

\* C21 (as claimed): a single PDF with n pages, n up to the README's page
\* maximum, yields n artifacts.
C21_ReadmePageMaximum ==
    (fpc = "returned" /\ Len(files) = 1 /\ files[1].type = PdfType
       /\ files[1].pages \in 1..README_MAX_PAGES) =>
        Len(fout) = files[1].pages

\* The message is a user message of one text segment followed by one image
\* segment per blob, in the order of blobs.
CarriesInOrder(message, blobs) ==
    /\ message.role = "user"
    /\ Len(message.content) = 1 + Len(blobs)
    /\ message.content[1].type = "text"
    /\ \A i \in 1..Len(blobs) :
          message.content[i + 1] = [type |-> "image", value |-> blobs[i]]

\* The lists of up to MAX_PAGES images out of three.
BlobLists == UNION {[1..n -> 1..3] : n \in 1..MAX_PAGES}

\* userMessage is well formed for every list of images.
UserMessageShape == \A blobs \in BlobLists : CarriesInOrder(UserMessage(blobs), blobs)

\* C22: the extraction prompt is called with one user message, which holds
\* the instruction segment and then the call's images in their order; no
\* request exists before that prompt.
C22_RequestSegments ==
    /\ UserMessageShape
    /\ \A c \in Calls :
          /\ pc[c] \in {"prompt", "repair"} =>
                /\ Len(request[c]) = 1
                /\ CarriesInOrder(request[c][1], imageBlobs[c])
          /\ Count(trail[c], {"prompt"}) = 0 => request[c] = <<>>

C22_Witness ==
    \E c \in Calls :
        /\ pc[c] = "prompt" /\ imageBlobs[c] = <<2, 1>>
        /\ request[c][1].content
             = <<[type |-> "text", value |-> 0], [type |-> "image", value |-> 2],
                 [type |-> "image", value |-> 1]>>

\* C23: checkAvailability is pending only while the probe is unsettled and
\* the timer not yet due; every call ends by returning one of the result
\* objects; a call still pending when the timer fires returns available =
\* false with status 'error'.
C23_AvailabilityAlwaysAnswers ==
    /\ apc \in {"idle", "racing", "returned"}
    /\ apc = "racing" =>
          /\ aprobe = "pending" /\ atimer = "armed"
          /\ aclock <= Deadline
    /\ apc = "returned" =>
          aresult \in {NoApiResult, ErrorResult(ErrNoAvailabilityFn),
                       ErrorResult(ErrProbe), ErrorResult(ErrTimeout)}
                      \cup {StatusResult(a) : a \in ProbeStatuses}
    /\ (apc = "returned" /\ aprobe = "pending") =>
          /\ atimer = "fired"
          /\ aresult.available = FALSE /\ aresult.status = "error"
    /\ aresult = ErrorResult(ErrTimeout) => aclock >= Deadline

C23_Witness ==
    /\ apc = "returned" /\ aprobe = "pending" /\ atimer = "fired"
    /\ aclock = MaxClock
    /\ aresult = ErrorResult(ErrTimeout)

\* C24 (as claimed): getSessionUsage gives null exactly when no created
\* handle is undestroyed, and gives null once an extraction call has finished
\* and none is in flight.
C24_UsageOnlyWhileLive ==
    /\ ~getSessionUsage(session).snapshot <=> LiveHandles = {}
    /\ ((\E c \in Calls : Finished(c)) /\ (\A c \in Calls : ~InFlight(c)))
          => ~getSessionUsage(session).snapshot

\* Sanitize-then-parse, and nothing else, succeeds on each repair response.
SanitizeThenParse ==
    [t \in RepairTexts |->
        sanitizeJSON(t).ok /\ JSONparse(sanitizeJSON(t).text).ok]

\* Call c has had its repair prompt answered.
RepairAnswered(c) ==
    /\ Finished(c)
    /\ Len(trail[c]) > 0
    /\ trail[c][Len(trail[c])] \in {"repair ok", "repair failed"}

\* C25: the repair prompt carries the raw output that could not be parsed,
\* between the fixed texts of the template; its answer is recovered by
\* sanitize-then-parse alone, so the call returns exactly when that succeeds,
\* and an answer that is valid JSON but for a trailing comma makes the call
\* throw the unrepairable-JSON error.
C25_RepairResponseNotRepaired ==
    \A c \in Calls :
        /\ pc[c] = "repair" \/ RepairAnswered(c) =>
              /\ repairPrompt[c].output = rawResult[c]
              /\ repairPrompt[c] = RepairPromptText(rawResult[c])
              /\ ~LocalRecovery[rawResult[c]].ok
        /\ RepairAnswered(c) =>
              /\ pc[c] = "returned" <=> SanitizeThenParse[repairedResult[c]]
              /\ repairedResult[c] = TrailingCommaText =>
                    /\ pc[c] = "thrown"
                    /\ err[c] = MkError("Error", ErrUnrepairable)

\* A call threw after its repair prompt, sent for prose with no JSON in it,
\* was answered with an object that has a trailing comma.
C25_Witness ==
    \E c \in Calls :
        /\ RepairAnswered(c)
        /\ rawResult[c] = Chars("no data")
        /\ repairPrompt[c].output = Chars("no data")
        /\ repairedResult[c] = TrailingCommaText
        /\ repairJSON(TrailingCommaText).ok
        /\ pc[c] = "thrown"

\* The closing delimiter of an opening one.
Closer(open) == IF open = "{" THEN "}" ELSE "]"

\* C26: the text sanitizeJSON returns starts with an opening brace or bracket
\* and ends with the closing delimiter of that kind.
C26_EndsAtMatchingCloser ==
    jphase \in {"sanitized", "parsed"} /\ jclean.ok =>
        /\ jclean.text[1] \in {"{", "["}
        /\ jclean.text[Len(jclean.text)] = Closer(jclean.text[1])

\* C27: when repairJSON succeeds on a text, the strings of the document it
\* returns are the strings of the text, which are those of the document the
\* text was written from.
C27_RepairKeepsStrings ==
    jphase = "repaired" /\ jout.ok => StringsOf(jout.val) = StringsOf(jdoc)

\* C28: for the text of a document with prose before it and commentary after
\* it, whatever their characters, sanitizeJSON succeeds and JSON.parse
\* returns the document.
C28_ProseRecovered ==
    jwrap = "prose" =>
        /\ jphase = "sanitized" => jclean.ok
        /\ jphase = "parsed" => (jout.ok /\ jout.val = jdoc)

\* The elements of a sequence.
Range(q) == {q[k] : k \in 1..Len(q)}

\* The pages that were fetched and whose cleanup() has not been invoked.
LivePages == Range(fetched) \ cleaned

\* The page p = <<file, number>> was encoded into an artifact.
Encoded(p) == PageArtifact(p[1], p[2]) \in Range(images) \cup Range(results)

\* C29: at most one page is fetched and not cleaned up at any moment, it is
\* the page in work, and every page fetched before the latest one has been
\* rendered, encoded and cleaned up.
C29_OnePageAtATime ==
    /\ Cardinality(LivePages) <= 1
    /\ LivePages \subseteq {<<fileIdx, pageNum>>}
    /\ \A i \in 1..Len(fetched) : \A j \in 1..(i - 1) :
          /\ fetched[j] \in Range(rendered)
          /\ Encoded(fetched[j])
          /\ fetched[j] \in cleaned

\* The second page of a PDF is fetched after the first was cleaned up.
C29_Witness ==
    /\ fpc = "pdf" /\ pageStep = "fetched" /\ pageNum = 2
    /\ fetched = <<<<fileIdx, 1>>, <<fileIdx, 2>>>>
    /\ LivePages = {<<fileIdx, 2>>}
    /\ cleaned = {<<fileIdx, 1>>}

\* The images among the artifacts returned.
ImagesReturned == Cardinality({k \in 1..Len(fout) : fout[k].type = "image"})

\* C30: a page is rendered only while the artifacts made so far leave room
\* for it within MAX_PAGES; when processFiles returns, every page that was
\* rendered is among the artifacts returned, and the pages rendered and the
\* images returned are at most MAX_PAGES together.
C30_BudgetBoundsRendering ==
    /\ (fpc = "pdf" /\ pageStep = "rendered") =>
          Len(results) + Len(images) < MAX_PAGES
    /\ fpc = "returned" =>
          /\ \A r \in Range(rendered) : PageArtifact(r[1], r[2]) \in Range(fout)
          /\ Len(rendered) + ImagesReturned <= MAX_PAGES

\* Call c was rejected for having no images.
NoImagesThrown(c) == pc[c] = "thrown" /\ err[c] = MkError("Error", ErrNoImages)

\* C31: once every attempt has finished, none of them through the no-images
\* rejection, every handle LM.create returned has been destroyed.
C31_OverlapLeavesNoHandle ==
    ((\A c \in Calls : Finished(c)) /\ (\A c \in Calls : ~NoImagesThrown(c)))
        => LiveHandles = {}

\* C32: with the attempts serialized, a prompt is pending only on a handle
\* that has not been destroyed, and no handle is destroyed twice.
C32_SerialHandlesSound ==
    /\ \A h \in 1..Len(destroys) : destroys[h] <= 1
    /\ \A c \in Calls :
          pc[c] \in {"prompt", "repair"} =>
              /\ held[c] \in 1..Len(destroys)
              /\ destroys[held[c]] = 0

\* The second attempt prompts on the handle the first attempt created and
\* left in the module variable when it was rejected for having no images.
C32_Witness ==
    \E c, d \in Calls :
        /\ NoImagesThrown(c)
        /\ pc[d] = "repair" /\ held[d] = 1 /\ createCalls = 1
        /\ destroys = <<0>>

\* The invocation c of checkAIWithRetry is suspended at an await.
Executing(c) == cpc[c] \in {"probing", "waiting"}

\* C33: the in-progress flag is set exactly while an invocation is under
\* way, at most one is, an invocation that found the flag set has made no
\* probe, and an invocation that has ended, on whichever path, has left the
\* flag clear unless another one is under way.
C33_OneCheckAtATime ==
    /\ checkInProgressRef <=> \E c \in Checks : Executing(c)
    /\ Cardinality({c \in Checks : Executing(c)}) <= 1
    /\ \A c \in Checks : cpc[c] = "skipped" => attempts[c] = 0

\* The mount effect ran twice: the second invocation was skipped while the
\* first is probing; a third one ended because the component was unmounted.
C33_Witness ==
    \E c, d \in Checks :
        /\ cpc[c] = "skipped" /\ cpc[d] = "probing" /\ checkInProgressRef
        /\ \E e \in Checks : cpc[e] = "done" /\ attempts[e] = 1 /\ aiStatus = Checking

\* What a probe that resolved with a state does to invocation c, with
\* recording required if mustRecord holds: a 'ready' or 'downloadable' state
\* ends the check with available = true; the check waits for another probe
\* only after 'downloading' or 'unavailable' with attempts left; any other
\* state, or the last attempt, ends the check with available = false.
ProbeOutcome(c, state, mustRecord) ==
    /\ attempts[c] <= DEFAULT_MAX_ATTEMPTS
    /\ state \in {"ready", "downloadable"} =>
          /\ cpc'[c] = "done"
          /\ mustRecord => (aiStatus'.available /\ ~aiStatus'.loading)
    /\ cpc'[c] = "waiting" =>
          /\ state \in {"downloading", "unavailable"}
          /\ attempts[c] < DEFAULT_MAX_ATTEMPTS
    /\ (state \notin {"ready", "downloadable"}
          /\ (state \notin {"downloading", "unavailable"}
                \/ attempts[c] = DEFAULT_MAX_ATTEMPTS)) =>
          /\ cpc'[c] = "done"
          /\ ~aiStatus'.available

\* C34 (as claimed): every probe that resolves ends or continues the check
\* as its state says, and a 'ready' or 'downloadable' state is recorded as
\* available = true.
C34_ProbeBudget ==
    [][\A c \in Checks, status \in ResultStatuses :
          ProbeStep(c, status) => ProbeOutcome(c, getAIStatus(status), TRUE)]_vars

\* C34 (amended): the same, with available = true recorded when the
\* component is still mounted as the probe resolves; when it is not, the
\* check ends and aiStatus is left as it was.
C34_ProbeBudgetWhileMounted ==
    [][\A c \in Checks, status \in ResultStatuses :
          ProbeStep(c, status) =>
              /\ ProbeOutcome(c, getAIStatus(status), isMountedRef)
              /\ ~isMountedRef => (cpc'[c] = "done" /\ aiStatus' = aiStatus)]_vars

\* A check made three probes, the last one 'downloading', and ended with
\* available = false.
C34_Witness ==
    \E c \in Checks :
        /\ cpc[c] = "done" /\ attempts[c] = DEFAULT_MAX_ATTEMPTS
        /\ aiStatus = [loading |-> FALSE, available |-> FALSE, state |-> "downloading"]

\* C35: an invocation that ran (it was not skipped) and has ended made at
\* least one probe; and while the component is mounted with a check ended
\* and none under way, aiStatus.loading is false.
C35_CheckEndsLoaded ==
    /\ \A c \in Checks : cpc[c] = "done" => attempts[c] >= 1
    /\ (/\ effectActive /\ isMountedRef
        /\ \E c \in Checks : cpc[c] = "done"
        /\ \A c \in Checks : ~Executing(c)) => ~aiStatus.loading

\* The upload started last.
LastUpload == Cardinality({u \in Uploads : upc[u] # "idle"})

\* C36: once no upload is being processed, the pages in processedImages,
\* which are the pages handleProcess forwards, are all pages of the upload
\* started last.
C36_PagesOfLatestUpload ==
    (\A u \in Uploads : upc[u] # "processing") =>
        \A k \in 1..Len(processedImages) : processedImages[k].upload = LastUpload

\* C37: every object URL that was created and is not among the URLs a
\* mounted step shows has been revoked.
C37_PreviewsRevoked ==
    (1..urlCount) \ (UrlSet(previewUrls) \cup UrlSet(schemaUrls)) \subseteq revoked

====
